---- MODULE Spec2Model ----
(***************************************************************************)
(* Billing domain: the invoice lifecycle of invoice-service, the payment   *)
(* lifecycle of payment-service and the event bus adapter between them.    *)
(***************************************************************************)
EXTENDS Integers, Sequences, FiniteSets, TLC

\* ------------------------------------------------------------------ bounds
MaxInvoices == 1
MaxPayments == 2
MaxEvents == 2
MaxClock == 1
MaxCalculations == 1
MaxItems == 2

\* ------------------------------------------------------------------ values
Users == {"u1", "u2"}

\* app/models/invoice.py InvoiceStatus
DRAFT == "draft"
ISSUED == "issued"
PARTIALLY_PAID == "partially_paid"
PAID == "paid"
OVERDUE == "overdue"
CANCELLED == "cancelled"
InvoiceStatus == {DRAFT, ISSUED, PARTIALLY_PAID, PAID, OVERDUE, CANCELLED}

\* An optional value is the empty sequence (None) or a one-element sequence.
None == <<>>
Some(v) == <<v>>

\* (subtotal, tax_amount, discount_amount) triples offered to create_invoice
AmountInputs == {<<2, 0, 0>>, <<2, 1, 1>>}

VARIABLES
    now,            \* the clock read by datetime.utcnow()
    invoices,       \* the invoices table: sequence indexed by the autoincrement id
    history,        \* the invoice_history table, in insertion order
    invoice_items,  \* the invoice_items table, in insertion order
    requests,       \* per database session: the issue or cancel request in flight
    generated,      \* the invoice number _generate_invoice_number returned last
    brokerUp,       \* whether the RabbitMQ broker is reachable
    pubConnected,   \* EventPublisher.connected, per service
    adapter,        \* what the latest call of connect or publish_event did
    events,         \* every message the exchange accepted, in publication order
    delivery,       \* per message of events: where it is in its queue's life
    consumers,      \* per consumer: connected, consuming, message in flight
    event_handlers, \* per consumer: event type -> registered handler
    payments,       \* the payments table: sequence indexed by the autoincrement id
    attempts,       \* the payment_attempts table, in insertion order
    inGateway,      \* payments whose create_payment awaits the gateway's answer
    tax_calculations,       \* the tax_calculations table, in insertion order
    discount_applications,  \* the discount_applications table, in insertion order
    quoted,         \* the response of the most recent calculate_tax or apply_discount
    last            \* the outcome of the most recent request

vars == <<now, invoices, history, invoice_items, requests, generated, brokerUp, pubConnected,
          adapter, events, delivery,
          consumers, event_handlers, payments, attempts, inGateway,
          tax_calculations, discount_applications, quoted, last>>

invoiceVars == <<invoices, history, invoice_items, requests, generated>>
paymentVars == <<payments, attempts, inGateway>>
busVars == <<pubConnected, adapter, events, delivery>>
consumerVars == <<consumers, event_handlers>>
pricingVars == <<tax_calculations, discount_applications, quoted>>

Services == {"invoice", "payment", "tax", "discount"}

InvoiceIds == 1..MaxInvoices

Exists(id) == id \in 1..Len(invoices)

\* ---------------------------------------------------------------- publisher
\* A connected flag that follows the broker: cleared as soon as a call finds
\* the broker unreachable.
ConnectedWhileReachable(svc) == brokerUp

\* EventPublisher.connect: no-op when connected, else one attempt that
\* succeeds exactly when the broker is reachable; errors are absorbed.
ConnectedAfterConnect(svc) == IF pubConnected[svc] THEN TRUE ELSE brokerUp

\* A connect that opens a new connection on every call.
ConnectsAnew(connected) == 1

\* The connection attempts of one connect() call: none when the adapter is
\* marked connected, else one.
ConnectAttempts(connected) == IF connected THEN 0 ELSE 1

\* A publish_event that reports success whenever the publisher is marked
\* connected.
PublishOkWhenConnected(svc) == ConnectedAfterConnect(svc)

\* EventPublisher.publish_event: the boolean it returns.
PublishOk(svc) == ConnectedAfterConnect(svc) /\ brokerUp

\* The record of an adapter call: its connection attempts, whether it went
\* on to send a message, and what it returned (for connect, which returns
\* nothing, the connected flag it left).
Call(connects, sent, result) == [connects |-> connects, sent |-> sent, result |-> result]

NoCall == Call(0, FALSE, FALSE)

\* EventPublisher.connect
PublisherConnect(svc) ==
    /\ pubConnected' = [pubConnected EXCEPT ![svc] = ConnectedAfterConnect(svc)]
    /\ adapter' = Call(ConnectAttempts(pubConnected[svc]), FALSE, ConnectedAfterConnect(svc))
    /\ UNCHANGED <<now, pricingVars, brokerUp, invoiceVars, events, delivery, consumerVars,
                   paymentVars, last>>

\* EventPublisher.disconnect
PublisherDisconnect(svc) ==
    /\ pubConnected[svc]
    /\ pubConnected' = [pubConnected EXCEPT ![svc] = FALSE]
    /\ UNCHANGED <<now, pricingVars, brokerUp, invoiceVars, adapter, events, delivery,
                   consumerVars, paymentVars, last>>

\* The correlation_id of the request numbered n (the X-Correlation-ID header,
\* or the uuid the middleware draws for the request).
CorrelationId(n) == <<"request", n>>

\* The correlation_id of the requests of the invoice, tax and discount
\* services, as their routes read it from request.state.
RequestCorrelation == Some(CorrelationId(0))

\* str(uuid.uuid4()) drawn while the envelope numbered n is built.
uuid4(n) == <<"uuid4", n>>

\* publish_event: "correlation_id or str(uuid.uuid4())".
EnvelopeCorrelation(correlation_id, n) ==
    IF correlation_id # None THEN correlation_id[1] ELSE uuid4(n)

\* The publishers whose envelope has the key source_service.  The
\* EventPublisher classes of the invoice and the discount service build the
\* envelope without it; the payment and the tax service's publishers are
\* taken to write the envelope of BaseEventPublisher, which has it.
WritesSourceService(svc) == svc \in {"payment", "tax"}

\* The message publish_event sends: the envelope (event_id is a fresh uuid4
\* per call; source_service is None where the envelope has no such key),
\* with the routing key and the publisher it came from.
Envelope(svc, type, key, payload, correlation_id) ==
    [event_id |-> Len(events) + 1, event_type |-> type, routing_key |-> key,
     source |-> svc, timestamp |-> now,
     correlation_id |-> EnvelopeCorrelation(correlation_id, Len(events) + 1),
     source_service |-> IF WritesSourceService(svc) THEN Some(svc) ELSE None,
     payload |-> payload]

\* EventConsumer.connect of the payment service binds payment_service_queue
\* to these routing keys.
PaymentQueueKeys == {"invoice.created", "invoice.updated"}

\* The invoice service's consumer binds its queue to the payment outcome it
\* applies to invoices.
InvoiceQueueKeys == {"payment.received"}

\* The queue a routing key leads to on the topic exchange.
QueueOf(key) ==
    IF key \in PaymentQueueKeys THEN "payment"
    ELSE IF key \in InvoiceQueueKeys THEN "invoice"
    ELSE "none"

\* A message as the broker holds it once the exchange accepted it.
Enqueued(key) ==
    [state |-> IF QueueOf(key) = "none" THEN "unrouted" ELSE "ready",
     result |-> "none", redelivered |-> FALSE]

\* publish_event as a state change: the message reaches the exchange only
\* when the publish succeeded.
publish_event(svc, type, key, payload, correlation_id) ==
    /\ Len(events) < MaxEvents
    /\ pubConnected' = [pubConnected EXCEPT ![svc] = ConnectedAfterConnect(svc)]
    /\ adapter' = Call(ConnectAttempts(pubConnected[svc]), ConnectedAfterConnect(svc),
                       PublishOk(svc))
    /\ IF PublishOk(svc)
       THEN /\ events' = Append(events, Envelope(svc, type, key, payload, correlation_id))
            /\ delivery' = Append(delivery, Enqueued(key))
       ELSE UNCHANGED <<events, delivery>>

NoPublish == UNCHANGED <<pubConnected, adapter, events, delivery>>

\* publish_event called on its own, as publish_invoice_created and the other
\* wrappers call it.
PublishCall(svc, type, key) ==
    /\ publish_event(svc, type, key, [invoice_id |-> 1], RequestCorrelation)
    /\ UNCHANGED <<now, pricingVars, brokerUp, invoiceVars, consumerVars, paymentVars, last>>

\* ------------------------------------------------------------- JSON on the wire
\* A Python value of a payload: its type and its text.  The payloads the
\* services build hold ints, floats, strings, members of a str Enum (the
\* status) and None; a Decimal is what a caller who forgot float() passes.
PyValues ==
    {<<"int", "1">>, <<"float", "2.5">>, <<"str", "cust-1">>, <<"enum", "issued">>,
     <<"none", "null">>, <<"decimal", "2.5">>}

\* A json.dumps that writes an Enum member by its name.
DumpsEnumByName(v) ==
    IF v[1] = "int" THEN <<"integer", v[2]>>
    ELSE IF v[1] = "float" THEN <<"real", v[2]>>
    ELSE IF v[1] = "str" THEN <<"string", v[2]>>
    ELSE IF v[1] = "enum" THEN <<"string", "InvoiceStatus.ISSUED">>
    ELSE <<"null", "null">>

\* json.dumps of one value: the JSON token it writes.  An int is written as
\* an integer literal, a float with its fraction, a str and a member of a
\* str Enum as a string of its value, None as null.
DumpsValue(v) ==
    IF v[1] = "int" THEN <<"integer", v[2]>>
    ELSE IF v[1] = "float" THEN <<"real", v[2]>>
    ELSE IF v[1] \in {"str", "enum"} THEN <<"string", v[2]>>
    ELSE <<"null", "null">>

\* Whether json.dumps accepts the payload: a Decimal raises TypeError.
Serializable(payload) == \A k \in DOMAIN payload : payload[k][1] # "decimal"

\* json.dumps(event): the envelope's own fields are strings, which are
\* written as they are; the payload's values are written one by one.
json_dumps(event) ==
    [event EXCEPT !.payload = [k \in DOMAIN event.payload |-> DumpsValue(event.payload[k])]]

\* json.loads of one token: the Python value it gives.
LoadsValue(tok) ==
    IF tok[1] = "integer" THEN <<"int", tok[2]>>
    ELSE IF tok[1] = "real" THEN <<"float", tok[2]>>
    ELSE IF tok[1] = "string" THEN <<"str", tok[2]>>
    ELSE <<"none", "null">>

\* json.loads(message.body.decode()) in process_message: the dictionary
\* that is handed to the handler.
json_loads(body) ==
    [body EXCEPT !.payload = [k \in DOMAIN body.payload |-> LoadsValue(body.payload[k])]]

\* Python's == on two payload values: a member of a str Enum equals the
\* string of its value.
PyEq(a, b) ==
    \/ a = b
    \/ a[1] \in {"str", "enum"} /\ b[1] \in {"str", "enum"} /\ a[2] = b[2]

\* The payloads offered to publish_event: the one issue_invoice builds
\* (ids, amounts, the status, an absent due date), a smaller one, and one
\* that holds a Decimal.
WirePayloads ==
    {[invoice_id |-> <<"int", "1">>, customer_id |-> <<"str", "cust-1">>,
      total_amount |-> <<"float", "2.5">>, status |-> <<"enum", "issued">>,
      due_date |-> <<"none", "null">>],
     [invoice_id |-> <<"int", "1">>, status |-> <<"str", "cust-1">>],
     [invoice_id |-> <<"int", "1">>, total_amount |-> <<"decimal", "2.5">>]}

\* publish_event called with such a payload: json.dumps runs inside the try
\* block, after the connection was made, and when it raises the call logs
\* the error and returns False.
PublishPayload(svc, type, key, payload) ==
    /\ IF Serializable(payload)
       THEN publish_event(svc, type, key, payload, RequestCorrelation)
       ELSE /\ pubConnected' = [pubConnected EXCEPT ![svc] = ConnectedAfterConnect(svc)]
            /\ adapter' = Call(ConnectAttempts(pubConnected[svc]), FALSE, FALSE)
            /\ UNCHANGED <<events, delivery>>
    /\ UNCHANGED <<now, pricingVars, brokerUp, invoiceVars, consumerVars, paymentVars, last>>

\* A result that turns into a failure when the event was not published.
FailsWhenUnpublished(code, published) == IF published THEN code ELSE "500"

\* What a request returns after "await event_publisher.publish_...(...)":
\* the boolean the publish returned is dropped.
AfterPublish(code, published) == code

\* publish_invoice_created / publish_invoice_updated payloads (the fields
\* that the model's invoices carry).
InvoicePayload(id, inv, user_id) ==
    [invoice_id |-> id, status |-> inv.status, amount |-> inv.total_amount]

\* ------------------------------------------------------ invoice repository
add_history_entry(id, user_id, action, old, new) ==
    [invoice_id |-> id, user_id |-> user_id, action |-> action, old |-> old, new |-> new]

get_invoice_history(id) == SelectSeq(history, LAMBDA h : h.invoice_id = id)

\* InvoiceRepository.update_invoice_status: the row after the call.
update_invoice_status(inv, status) ==
    IF inv.status # status
    THEN [inv EXCEPT !.status = status,
                     !.paid_date = IF status = PAID /\ inv.paid_date = None
                                   THEN Some(now) ELSE @,
                     !.updated_at = now]
    ELSE inv

\* A status update that writes a history entry whether or not the status
\* changes.
StatusHistoryAlways(id, inv, user_id, status) ==
    Append(history, add_history_entry(id, user_id, "status_change", inv.status, status))

\* InvoiceRepository.update_invoice_status: the history it appends.
StatusHistory(id, inv, user_id, status) ==
    IF inv.status # status
    THEN Append(history, add_history_entry(id, user_id, "status_change", inv.status, status))
    ELSE history

\* Attributes of the Invoice row that the model carries (hasattr is true).
InvoiceAttrs == {"user_id", "status", "notes", "subtotal", "tax_amount",
                 "discount_amount", "total_amount", "paid_date", "updated_at"}

\* The update_data dictionaries offered to update_invoice.
UpdateInputs ==
    { [notes |-> "a"], [status |-> PAID], [user_id |-> "u2"], [total_amount |-> 5],
      [no_such_attr |-> 1], [notes |-> "a", status |-> PARTIALLY_PAID] }

\* The amount columns of an invoice.
AmountKeys == {"subtotal", "tax_amount", "discount_amount", "total_amount"}

\* The keys InvoiceRepository.update_invoice actually assigns.
ChangedKeys(inv, data) ==
    {k \in DOMAIN data : k \in InvoiceAttrs /\ inv[k] # data[k]}

\* An update that issues the invoice along with the keys it assigns.
FieldsUpdatedAndIssued(inv, data) ==
    LET ch == ChangedKeys(inv, data)
    IN [k \in DOMAIN inv |-> IF k = "status" THEN ISSUED
                             ELSE IF k \in ch THEN data[k] ELSE inv[k]]

\* InvoiceRepository.update_invoice: the row after the call.
FieldsUpdated(inv, data) ==
    LET ch == ChangedKeys(inv, data)
        set == [k \in DOMAIN inv |-> IF k \in ch THEN data[k] ELSE inv[k]]
    IN IF ch # {} THEN [set EXCEPT !.updated_at = now] ELSE inv

\* --------------------------------------------------------- invoice service
Result(op, id, code) == [op |-> op, id |-> id, code |-> code]

\* An access check that lets every user through.
GetInvoiceIgnoresOwner(id, user_id) == IF ~Exists(id) THEN "404" ELSE "ok"

\* InvoiceService.get_invoice: "ok" when access is granted, else the HTTP error.
get_invoice(id, user_id) ==
    IF ~Exists(id) THEN "404"
    ELSE IF invoices[id].user_id # user_id THEN "403"
    ELSE "ok"

\* The requests that read an invoice: GET /invoices/{id}, its payments and
\* its history.  Each goes through get_invoice first.
InvoiceReads == {"get_invoice", "get_invoice_payments", "get_invoice_history"}

\* InvoiceService.get_invoice / get_invoice_payments / get_invoice_history
\* as requests: they return the rows or raise, and write nothing.
ReadInvoice(op, id, user_id) ==
    /\ last' = Result(op, id, IF get_invoice(id, user_id) = "ok" THEN "200"
                              ELSE get_invoice(id, user_id))
    /\ UNCHANGED <<now, pricingVars, brokerUp, invoiceVars, busVars, consumerVars, paymentVars>>

\* A total that leaves the discount out.
TotalIgnoresDiscount(subtotal, tax_amount, discount_amount) == subtotal + tax_amount

\* InvoiceService.create_invoice: "total_amount = subtotal + tax_amount -
\* discount_amount".
TotalAmount(subtotal, tax_amount, discount_amount) ==
    subtotal + tax_amount - discount_amount

\* The items create_invoice is given: a dictionary, as the loop reads it
\* (item["quantity"], item["unit_price"], item["description"]), and the
\* InvoiceItemCreate object that the POST route passes on, which cannot be
\* subscripted (TypeError).
DictItem == [subscriptable |-> TRUE, description |-> "work", quantity |-> 2, unit_price |-> 1]
SchemaItem == [subscriptable |-> FALSE, description |-> "work", quantity |-> 2, unit_price |-> 1]

ItemLists ==
    UNION {[1..n -> {DictItem, SchemaItem}] : n \in 0..MaxItems}

\* InvoiceRepository.add_invoice_item: the row it commits.
add_invoice_item(id, item) ==
    [invoice_id |-> id, description |-> item.description, quantity |-> item.quantity,
     unit_price |-> item.unit_price, amount |-> item.quantity * item.unit_price]

\* The items the loop of create_invoice gets through before one raises.
ItemsAttached(items) ==
    LET bad == {k \in 1..Len(items) : ~items[k].subscriptable}
    IN IF bad = {} THEN items
       ELSE SubSeq(items, 1, (CHOOSE k \in bad : \A j \in bad : k <= j) - 1)

\* A creation that is announced whatever the status.
AlwaysAnnounced(status) == TRUE

\* InvoiceService.create_invoice: "if status != InvoiceStatus.DRAFT" the
\* creation is announced with invoice_created.
AnnouncedAtCreation(status) == status # DRAFT

\* InvoiceService.create_invoice: the row is created with the status the
\* caller passes (DRAFT by default) and committed with its history entry;
\* then the items are committed one by one; a non-draft creation is
\* announced.  An item that raises ends the request there.
create_invoice(user_id, amounts, status, items) ==
    LET id == Len(invoices) + 1
        inv == [user_id |-> user_id, status |-> status, notes |-> "None",
                subtotal |-> amounts[1], tax_amount |-> amounts[2],
                discount_amount |-> amounts[3],
                total_amount |-> TotalAmount(amounts[1], amounts[2], amounts[3]),
                paid_date |-> None, updated_at |-> now]
        attached == ItemsAttached(items)
    IN /\ Len(invoices) < MaxInvoices
       /\ invoices' = Append(invoices, inv)
       /\ history' = Append(history, add_history_entry(id, user_id, "created", "None", status))
       /\ invoice_items' = invoice_items \o
                              [k \in 1..Len(attached) |-> add_invoice_item(id, attached[k])]
       /\ IF Len(attached) < Len(items)
          THEN /\ NoPublish
               /\ last' = Result("create", id, "500")
          ELSE /\ IF AnnouncedAtCreation(status)
                  THEN publish_event("invoice", "invoice_created", "invoice.created",
                               InvoicePayload(id, inv, user_id), RequestCorrelation)
                  ELSE NoPublish
               /\ last' = Result("create", id, "201")
       /\ UNCHANGED <<now, requests, generated, pricingVars, brokerUp, consumerVars, paymentVars>>

\* An update guard that also lets an issued invoice through.
UpdateAllowedWhenIssued(inv) == inv.status \in {DRAFT, ISSUED}

\* The guard of update_invoice: the invoice must be a draft.
UpdateAllowed(inv) == inv.status = DRAFT

\* InvoiceService.update_invoice
update_invoice(id, user_id, data) ==
    LET err == get_invoice(id, user_id) IN
    /\ IF err # "ok"
       THEN /\ last' = Result("update", id, err)
            /\ UNCHANGED invoiceVars
       ELSE IF ~UpdateAllowed(invoices[id])
       THEN /\ last' = Result("update", id, "400")
            /\ UNCHANGED invoiceVars
       ELSE /\ invoices' = [invoices EXCEPT ![id] = FieldsUpdated(@, data)]
            /\ history' = IF ChangedKeys(invoices[id], data) # {}
                          THEN Append(history, add_history_entry(id, user_id, "updated",
                                                            "None", "None"))
                          ELSE history
            /\ last' = Result("update", id, "200")
    /\ UNCHANGED <<now, pricingVars, brokerUp, invoice_items, requests, generated, busVars, consumerVars,
                   paymentVars>>

\* An issue guard that lets an issued invoice be issued again.
IssueAllowedTwice(inv) == inv.status \in {DRAFT, ISSUED, PARTIALLY_PAID}

\* The guard of issue_invoice: only a draft can be issued.
IssueAllowed(inv) == inv.status = DRAFT

\* InvoiceService.issue_invoice
issue_invoice(id, user_id) ==
    LET err == get_invoice(id, user_id) IN
    /\ IF err # "ok"
       THEN /\ last' = Result("issue", id, err)
            /\ UNCHANGED <<invoiceVars, busVars>>
       ELSE IF ~IssueAllowed(invoices[id])
       THEN /\ last' = Result("issue", id, "400")
            /\ UNCHANGED <<invoiceVars, busVars>>
       ELSE LET updated == update_invoice_status(invoices[id], ISSUED) IN
            /\ invoices' = [invoices EXCEPT ![id] = updated]
            /\ history' = StatusHistory(id, invoices[id], user_id, ISSUED)
            /\ publish_event("invoice", "invoice_created", "invoice.created",
                       InvoicePayload(id, updated, user_id), RequestCorrelation)
            /\ last' = Result("issue", id, AfterPublish("200", PublishOk("invoice")))
    /\ UNCHANGED <<now, pricingVars, brokerUp, invoice_items, requests, generated, consumerVars,
                   paymentVars>>

\* A cancel guard that refuses an invoice that is already cancelled.
CancelRefusedWhenCancelled(inv) == inv.status # CANCELLED

\* A cancel guard that refuses nothing.
CancelAlwaysAllowed(inv) == TRUE

\* The guard of cancel_invoice: a paid invoice cannot be cancelled.
CancelAllowed(inv) == inv.status # PAID

\* InvoiceService.cancel_invoice
cancel_invoice(id, user_id) ==
    LET err == get_invoice(id, user_id) IN
    /\ IF err # "ok"
       THEN /\ last' = Result("cancel", id, err)
            /\ UNCHANGED <<invoiceVars, busVars>>
       ELSE IF ~CancelAllowed(invoices[id])
       THEN /\ last' = Result("cancel", id, "400")
            /\ UNCHANGED <<invoiceVars, busVars>>
       ELSE LET updated == update_invoice_status(invoices[id], CANCELLED) IN
            /\ invoices' = [invoices EXCEPT ![id] = updated]
            /\ history' = StatusHistory(id, invoices[id], user_id, CANCELLED)
            /\ publish_event("invoice", "invoice_updated", "invoice.updated",
                       InvoicePayload(id, updated, user_id), RequestCorrelation)
            /\ last' = Result("cancel", id, AfterPublish("200", PublishOk("invoice")))
    /\ UNCHANGED <<now, pricingVars, brokerUp, invoice_items, requests, generated, consumerVars,
                   paymentVars>>

\* -------------------------------------------------------- invoice numbers
\* len(str(n)) of a non-negative int.
RECURSIVE Digits(_)
Digits(n) == IF n < 10 THEN 1 ELSE 1 + Digits(n \div 10)

\* int(datetime.utcnow().timestamp()): epoch seconds, from 1970 to 2038.
Timestamps == {0, 9999999, 10000000, 999999999, 1000000000, 1500000000,
               1793000000, 2000000000, 2147483647}

\* str(uuid.uuid4().int): the decimal text of a 128-bit integer whose
\* version bits are set, which has from 24 to 39 digits; the text is
\* carried as its length and the number its first eight digits spell.
UuidTexts == [digits : {24, 31, 39},
              lead : {10000000, 12345678, 17014118, 20000000, 30223145, 34028236,
                      40000000, 55555555, 60000000, 71828182, 88888888, 99999999}]

\* text[:8]
FirstEight(text) == [digits |-> IF text.digits < 8 THEN text.digits ELSE 8,
                     lead |-> text.lead]

\* len(f"INV-{timestamp}-{random_part}")
NumberLength(number) == 4 + Digits(number.timestamp) + 1 + number.random_part.digits

\* app/models/invoice.py: invoice_number = Column(String(20), ...)
InvoiceNumberWidth == 20

\* InvoiceService._generate_invoice_number
_generate_invoice_number(timestamp, text) ==
    /\ generated' = Some([timestamp |-> timestamp, random_part |-> FirstEight(text)])
    /\ UNCHANGED <<now, invoices, history, invoice_items, requests, pricingVars, brokerUp,
                   busVars, consumerVars, paymentVars, last>>

\* ------------------------------------------- invoice requests, step by step
\* issue_invoice and cancel_invoice as the steps of one request in a session
\* of its own: it reads the row and checks it, commits the status, and
\* publishes.  Nothing locks the row between the steps.
RequestOps == {"issue", "cancel"}

\* The status a request writes, the guard it checks, the event it publishes.
TargetStatus(op) == IF op = "issue" THEN ISSUED ELSE CANCELLED

RequestAllowed(op, inv) == IF op = "issue" THEN IssueAllowed(inv) ELSE CancelAllowed(inv)

RequestEvent(op) == IF op = "issue" THEN <<"invoice_created", "invoice.created">>
                    ELSE <<"invoice_updated", "invoice.updated">>

\* db.commit() of a session: the UPDATE writes the columns the request
\* changed on its object and leaves the others as the table has them.
FlushChanges(row, before, after) ==
    [k \in DOMAIN row |-> IF after[k] # before[k] THEN after[k] ELSE row[k]]

\* get_invoice and the status check of issue_invoice / cancel_invoice.
RequestReads(s, op, id, user_id) ==
    LET err == get_invoice(id, user_id)
        request == [op |-> op, pc |-> "done", id |-> id, user_id |-> user_id,
                    loaded |-> None, code |-> "none"]
    IN /\ requests[s].pc = "idle"
       /\ requests' = [requests EXCEPT ![s] =
             IF err # "ok" THEN [request EXCEPT !.code = err]
             ELSE IF ~RequestAllowed(op, invoices[id]) THEN [request EXCEPT !.code = "400"]
             ELSE [request EXCEPT !.pc = "checked", !.loaded = Some(invoices[id])]]
       /\ UNCHANGED <<now, invoices, history, invoice_items, generated, pricingVars, brokerUp, busVars,
                      consumerVars, paymentVars, last>>

\* update_invoice_status on the object the request loaded: commit, refresh,
\* history entry.
RequestCommits(s) ==
    LET request == requests[s]
        loaded == request.loaded[1]
        written == update_invoice_status(loaded, TargetStatus(request.op))
    IN /\ request.pc = "checked"
       /\ invoices' = [invoices EXCEPT ![request.id] = FlushChanges(@, loaded, written)]
       /\ history' = StatusHistory(request.id, loaded, request.user_id,
                                   TargetStatus(request.op))
       /\ requests' = [requests EXCEPT ![s] =
                         [request EXCEPT !.pc = "committed", !.loaded = Some(written)]]
       /\ UNCHANGED <<now, invoice_items, generated, pricingVars, brokerUp, busVars, consumerVars,
                      paymentVars, last>>

\* "await event_publisher.publish_invoice_...(...)" and the return.
RequestPublishes(s) ==
    LET request == requests[s] IN
    /\ request.pc = "committed"
    /\ publish_event("invoice", RequestEvent(request.op)[1], RequestEvent(request.op)[2],
                     InvoicePayload(request.id, request.loaded[1], request.user_id),
                     RequestCorrelation)
    /\ requests' = [requests EXCEPT ![s] =
                      [request EXCEPT !.pc = "done",
                                      !.code = AfterPublish("200", PublishOk("invoice"))]]
    /\ UNCHANGED <<now, invoices, history, invoice_items, generated, pricingVars, brokerUp,
                   consumerVars, paymentVars, last>>

\* A payment handler that records a partial payment on whatever row it finds.
PaymentReceivedRegresses(inv, event) == [inv EXCEPT !.status = PARTIALLY_PAID]

\* handle_payment_received: the invoice row after the handler ran on a
\* payment_received event.  The handler only logs the event.
handle_payment_received(inv, event) == inv

\* ------------------------------------------------------ payment repository
\* app/models/payment.py PaymentStatus
PENDING == "pending"
PROCESSING == "processing"
COMPLETED == "completed"
FAILED == "failed"
REFUNDED == "refunded"
PaymentStatus == {PENDING, PROCESSING, COMPLETED, FAILED, REFUNDED}

\* app/models/payment.py PaymentMethod, and one value outside it
PaymentMethod == {"credit_card", "debit_card", "bank_transfer", "paypal", "crypto", "other"}
MethodInputs == {"credit_card", "cash"}

PaymentAmounts == {1, 2}
PaymentIds == 1..MaxPayments

\* PaymentRepository.create_payment: f"TXN-{epoch seconds}-{invoice_id}"
TransactionReference(t, invoice_id) == <<"TXN", t, invoice_id>>

\* MockPaymentGateway.process_payment: f"mock-txn-{timestamp}"
GatewayTransactionId(t) == <<"mock-txn", t, 0>>

\* PaymentRepository.get_payment_by_transaction_reference: the id of the
\* payment found, 0 when there is none.
get_payment_by_transaction_reference(ref) ==
    LET found == {p \in 1..Len(payments) : payments[p].transaction_reference = ref}
    IN IF found = {} THEN 0 ELSE CHOOSE p \in found : \A q \in found : p <= q

\* An update_payment_status that drops the external_reference it is given.
UpdateDropsReference(pay, status, status_message, external_reference) ==
    [pay EXCEPT !.status = status,
                !.status_message = IF status_message # None THEN status_message ELSE @,
                !.payment_date = IF status = COMPLETED /\ pay.payment_date = None
                                 THEN Some(now) ELSE @,
                !.updated_at = now]

\* A status update whose commit leaves the stored status as it was.
UpdateLeavesStatus(pay, status, status_message, external_reference) ==
    [pay EXCEPT !.status_message = IF status_message # None THEN status_message ELSE @,
                !.updated_at = now]

\* PaymentRepository.update_payment_status: the row after the call.
update_payment_status(pay, status, status_message, external_reference) ==
    [pay EXCEPT !.status = status,
                !.status_message = IF status_message # None THEN status_message ELSE @,
                !.external_reference = IF external_reference # None
                                       THEN external_reference ELSE @,
                !.payment_date = IF status = COMPLETED /\ pay.payment_date = None
                                 THEN Some(now) ELSE @,
                !.updated_at = now]

\* ---------------------------------------------------------- payment service
\* PaymentService.get_payment: "ok" when access is granted, else the HTTP error.
get_payment(id, user_id) ==
    IF id \notin 1..Len(payments) THEN "404"
    ELSE IF payments[id].user_id # user_id THEN "403"
    ELSE "ok"

\* PaymentService.get_payment as a request.
ReadPayment(id, user_id) ==
    /\ last' = Result("get_payment", id, IF get_payment(id, user_id) = "ok" THEN "200"
                                         ELSE get_payment(id, user_id))
    /\ UNCHANGED <<now, pricingVars, brokerUp, invoiceVars, busVars, consumerVars, paymentVars>>

\* publish_payment_received / publish_payment_failed payloads.
PaymentPayload(id, pay) ==
    [invoice_id |-> pay.invoice_id, status |-> pay.status, amount |-> pay.amount,
     payment_id |-> id]

\* The status PaymentService.create_payment gives the new row.
InitialPaymentStatus == PROCESSING

\* PaymentService.create_payment up to the gateway call: validate the
\* method, insert the row (transaction_reference is unique), call the gateway.
create_payment(user_id, invoice_id, amount, method) ==
    LET id == Len(payments) + 1
        ref == TransactionReference(now, invoice_id)
        row == [user_id |-> user_id, invoice_id |-> invoice_id, amount |-> amount,
                status |-> InitialPaymentStatus, status_message |-> None,
                external_reference |-> None, transaction_reference |-> ref,
                payment_date |-> None, updated_at |-> now]
    IN /\ Len(payments) < MaxPayments
       /\ IF method \notin PaymentMethod
          THEN /\ last' = Result("create_payment", 0, "400")
               /\ UNCHANGED paymentVars
          ELSE IF get_payment_by_transaction_reference(ref) # 0
          THEN /\ last' = Result("create_payment", 0, "500")
               /\ UNCHANGED paymentVars
          ELSE /\ payments' = Append(payments, row)
               /\ inGateway' = inGateway \cup {id}
               /\ UNCHANGED <<attempts, last>>
       /\ UNCHANGED <<now, pricingVars, brokerUp, invoiceVars, busVars, consumerVars>>

\* What the gateway call of create_payment ends with: a success response, a
\* failure response with a message (the mock's decline), a failure response
\* without one (PaymentGateway: a status >= 400 whose body has no
\* error.message, or an exception whose text is empty, as a timeout's is),
\* or an exception that leaves process_payment (the mock reading a
\* card_number that is not a string).
GatewayOutcomes == {"success", "declined", "rejected", "raises"}

\* The error_message of the gateway's failure response.
GatewayErrorMessage(outcome) ==
    IF outcome = "declined" THEN Some("Card was declined") ELSE None

\* PaymentService.create_payment from the gateway's answer on: record the
\* attempt, set the status, publish the outcome event.
GatewayReturn(id, outcome) ==
    /\ id \in inGateway
    /\ inGateway' = inGateway \ {id}
    /\ IF outcome = "raises"
       THEN /\ last' = Result("create_payment", id, "500")
            /\ UNCHANGED <<payments, attempts, busVars>>
       ELSE LET ok == outcome = "success"
                updated == IF ok
                           THEN update_payment_status(payments[id], COMPLETED, None,
                                                     Some(GatewayTransactionId(now)))
                           ELSE update_payment_status(payments[id], FAILED,
                                                     GatewayErrorMessage(outcome), None)
            IN /\ attempts' = Append(attempts, [payment_id |-> id, success |-> ok])
               /\ payments' = [payments EXCEPT ![id] = updated]
               /\ IF ok
                  THEN publish_event("payment", "payment_received", "payment.received",
                               PaymentPayload(id, updated), Some(CorrelationId(id)))
                  ELSE publish_event("payment", "payment_failed", "payment.failed",
                               PaymentPayload(id, updated), Some(CorrelationId(id)))
               /\ last' = Result("create_payment", id, AfterPublish("201", PublishOk("payment")))
    /\ UNCHANGED <<now, pricingVars, brokerUp, invoiceVars, consumerVars>>

WebhookTypes == {"payment.succeeded", "payment.failed", "payment.refunded", "payment.updated"}

\* The transaction_id values offered to the webhook: the service's own
\* references, the gateway's ids, and the empty string.
WebhookIds ==
    {TransactionReference(t, i) : t \in 0..MaxClock, i \in InvoiceIds}
        \cup {GatewayTransactionId(t) : t \in 0..MaxClock} \cup {None}

\* The status and message handle_webhook_event sets for an event type.
WebhookStatus(type) ==
    IF type = "payment.succeeded" THEN COMPLETED
    ELSE IF type = "payment.failed" THEN FAILED
    ELSE REFUNDED

WebhookMessage(type) ==
    IF type = "payment.succeeded" THEN "Payment confirmed by gateway"
    ELSE IF type = "payment.failed" THEN "Payment failed"
    ELSE "Payment refunded"

\* Whether handle_webhook_event applies an event of this type to a payment.
WebhookApplies(type, pay) ==
    type \in {"payment.succeeded", "payment.failed", "payment.refunded"}

\* PaymentService.handle_webhook_event
handle_webhook_event(type, transaction_id) ==
    LET id == get_payment_by_transaction_reference(transaction_id) IN
    /\ IF transaction_id = None
       THEN /\ last' = Result("webhook", 0, "error: missing transaction_id")
            /\ UNCHANGED <<payments, busVars>>
       ELSE IF id = 0
       THEN /\ last' = Result("webhook", 0, "error: payment not found")
            /\ UNCHANGED <<payments, busVars>>
       ELSE IF ~WebhookApplies(type, payments[id])
       THEN /\ last' = Result("webhook", id, "success")
            /\ UNCHANGED <<payments, busVars>>
       ELSE LET updated == update_payment_status(payments[id], WebhookStatus(type),
                                                Some(WebhookMessage(type)), None)
            IN /\ payments' = [payments EXCEPT ![id] = updated]
               /\ IF type = "payment.succeeded"
                  THEN publish_event("payment", "payment_received", "payment.received",
                               PaymentPayload(id, updated), None)
                  ELSE IF type = "payment.failed"
                  THEN publish_event("payment", "payment_failed", "payment.failed",
                               PaymentPayload(id, updated), None)
                  ELSE NoPublish
               /\ last' = Result("webhook", id, AfterPublish("success",
                                           type = "payment.refunded" \/ PublishOk("payment")))
    /\ UNCHANGED <<now, pricingVars, brokerUp, invoiceVars, consumerVars, attempts, inGateway>>

\* -------------------------------------------------------------- tax service
\* Amounts are in cents and rates in percent, so that amount * rate is exact.
PricedAmounts == {100, 200}

ProductTypes == {"digital", "physical"}

\* tax_rules rows
VatRule == [id |-> 1, name |-> "vat", product_type |-> "digital", rate |-> 10]
LevyRule == [id |-> 2, name |-> "levy", product_type |-> "digital", rate |-> 5]
DefaultRule == [id |-> 3, name |-> "default", product_type |-> "general", rate |-> 20]

\* The contents of the tax_rules table the service may find.
TaxRuleTables == {<<>>, <<VatRule>>, <<DefaultRule>>, <<VatRule, LevyRule, DefaultRule>>}

\* TaxRepository.get_tax_rules_by_product_type
get_tax_rules_by_product_type(rules, product_type) ==
    SelectSeq(rules, LAMBDA r : r.product_type = product_type)

\* TaxRepository.get_default_tax_rule
get_default_tax_rule(rules) ==
    LET named == SelectSeq(rules, LAMBDA r : r.name = "default")
    IN IF named = <<>> THEN None ELSE Some(named[1])

\* A choice of rules that adds the default rule to those of the product type.
DefaultAlwaysApplies(rules, product_type) ==
    LET specific == get_tax_rules_by_product_type(rules, product_type)
        default_rule == get_default_tax_rule(rules)
    IN IF default_rule # None THEN Append(specific, default_rule[1]) ELSE specific

\* The rules calculate_tax applies: those of the product type, else the
\* default rule, else none.
ApplicableRules(rules, product_type) ==
    LET specific == get_tax_rules_by_product_type(rules, product_type)
        default_rule == get_default_tax_rule(rules)
    IN IF specific # <<>> THEN specific
       ELSE IF default_rule # None THEN <<default_rule[1]>>
       ELSE <<>>

\* The sum of amount * rate over the rules.
RECURSIVE TaxAmount(_, _)
TaxAmount(amount, rules) ==
    IF rules = <<>> THEN 0
    ELSE (amount * Head(rules).rate) \div 100 + TaxAmount(amount, Tail(rules))

\* TaxService.calculate_tax
calculate_tax(rules, amount, product_type, user_id) ==
    LET db_tax_rules == ApplicableRules(rules, product_type)
        tax_amount == TaxAmount(amount, db_tax_rules)
        total_amount == amount + tax_amount
        rules_applied == [i \in DOMAIN db_tax_rules |-> db_tax_rules[i].name]
    IN /\ tax_calculations' =
             IF db_tax_rules # <<>>
             THEN Append(tax_calculations,
                         [user_id |-> user_id, original_amount |-> amount,
                          tax_amount |-> tax_amount, total_amount |-> total_amount,
                          product_type |-> product_type, rule_id |-> db_tax_rules[1].id])
             ELSE tax_calculations
       /\ Len(tax_calculations') <= MaxCalculations
       /\ publish_event("tax", "tax_calculated", "tax.calculated",
                  [tax_amount |-> tax_amount, rules_applied |-> rules_applied,
                   product_type |-> product_type, original_amount |-> amount,
                   user_id |-> user_id], RequestCorrelation)
       /\ quoted' = Some([original_amount |-> amount, tax_amount |-> tax_amount,
                          rules_applied |-> rules_applied, total_amount |-> total_amount])
       /\ last' = Result("calculate_tax", 0, AfterPublish("200", PublishOk("tax")))
       /\ UNCHANGED <<now, brokerUp, invoiceVars, consumerVars, paymentVars,
                      discount_applications>>

\* --------------------------------------------------------- discount service
\* discount_coupons rows
SaveCoupon == [id |-> 1, code |-> "SAVE", discount_percent |-> 50,
               max_discount_amount |-> Some(60), is_active |-> TRUE, valid_until |-> None]
ZeroCoupon == [id |-> 2, code |-> "ZERO", discount_percent |-> 0,
               max_discount_amount |-> None, is_active |-> TRUE, valid_until |-> None]
OldCoupon == [id |-> 3, code |-> "OLD", discount_percent |-> 50,
              max_discount_amount |-> None, is_active |-> TRUE, valid_until |-> Some(0)]

CouponCodes == {None, Some("SAVE"), Some("ZERO"), Some("OLD")}

\* user_type_discounts and amount_based_discounts rows
RegularDiscount == [user_type |-> "regular", discount_percent |-> 10]
BulkDiscount == [min_amount |-> 200, max_amount |-> None, discount_percent |-> 5]

\* The contents of the discount tables the service may find.
DiscountTables ==
    {[coupons |-> <<>>, user_types |-> <<>>, amount_based |-> <<>>],
     [coupons |-> <<SaveCoupon, ZeroCoupon, OldCoupon>>, user_types |-> <<>>,
      amount_based |-> <<BulkDiscount>>],
     [coupons |-> <<SaveCoupon, ZeroCoupon, OldCoupon>>, user_types |-> <<RegularDiscount>>,
      amount_based |-> <<BulkDiscount>>]}

\* The first row of a query's result, None when it is empty.
First(rows) == IF rows = <<>> THEN None ELSE Some(rows[1])

\* DiscountRepository.get_coupon_by_code
get_coupon_by_code(db, code) ==
    First(SelectSeq(db.coupons,
                    LAMBDA c : /\ c.code = code
                               /\ c.is_active
                               /\ (c.valid_until = None \/ c.valid_until[1] > now)))

\* DiscountRepository.get_user_type_discount
get_user_type_discount(db, user_type) ==
    First(SelectSeq(db.user_types, LAMBDA d : d.user_type = user_type))

\* DiscountRepository.get_amount_based_discount: the matching row of the
\* highest discount_percent.
get_amount_based_discount(db, amount) ==
    LET matching == SelectSeq(db.amount_based,
                              LAMBDA d : /\ d.min_amount <= amount
                                         /\ (d.max_amount = None \/ d.max_amount[1] >= amount))
        best == CHOOSE i \in DOMAIN matching :
                    \A j \in DOMAIN matching :
                        matching[i].discount_percent >= matching[j].discount_percent
    IN IF matching = <<>> THEN None ELSE Some(matching[best])

\* The coupon branch of apply_discount: the discount, its type and coupon_id.
CouponTier(db, amount, coupon_code) ==
    LET coupon == IF coupon_code # None THEN get_coupon_by_code(db, coupon_code[1]) ELSE None
        raw == (amount * coupon[1].discount_percent) \div 100
        cap == coupon[1].max_discount_amount
    IN IF coupon = None
       THEN [discount_amount |-> 0, discount_type |-> "none", coupon_id |-> None,
             discount_rule |-> None]
       ELSE [discount_amount |-> IF cap # None /\ cap[1] # 0 /\ raw > cap[1]
                                 THEN cap[1] ELSE raw,
             discount_type |-> "coupon", coupon_id |-> Some(coupon[1].id),
             discount_rule |-> Some("coupon")]

\* A user-type branch that is entered whatever the coupon branch left.
UserTierAlways(db, amount, before) ==
    LET user_discount == get_user_type_discount(db, "regular")
    IN IF user_discount # None
       THEN [before EXCEPT
               !.discount_amount = (amount * user_discount[1].discount_percent) \div 100,
               !.discount_type = "user_type", !.discount_rule = Some("user_type")]
       ELSE before

\* The user-type branch, entered while the discount is still zero.
UserTier(db, amount, before) ==
    LET user_discount == get_user_type_discount(db, "regular")
    IN IF before.discount_amount = 0 /\ user_discount # None
       THEN [before EXCEPT
               !.discount_amount = (amount * user_discount[1].discount_percent) \div 100,
               !.discount_type = "user_type", !.discount_rule = Some("user_type")]
       ELSE before

\* The amount-based branch, entered while the discount is still zero.
AmountTier(db, amount, before) ==
    LET amount_discount == get_amount_based_discount(db, amount)
    IN IF before.discount_amount = 0 /\ amount_discount # None
       THEN [before EXCEPT
               !.discount_amount = (amount * amount_discount[1].discount_percent) \div 100,
               !.discount_type = "amount_based", !.discount_rule = Some("amount_based")]
       ELSE before

\* A test that takes every computed discount as applied.
AppliedAlways(discount_amount) == TRUE

\* "if discount_amount > Decimal('0.0')": the discount is recorded and
\* announced.
Applied(discount_amount) == discount_amount > 0

\* DiscountService.apply_discount
apply_discount(db, amount, coupon_code, user_id) ==
    LET d == AmountTier(db, amount, UserTier(db, amount, CouponTier(db, amount, coupon_code)))
        final_amount == amount - d.discount_amount
        applied == Applied(d.discount_amount)
    IN /\ discount_applications' =
             IF applied
             THEN Append(discount_applications,
                         [user_id |-> user_id, original_amount |-> amount,
                          discount_amount |-> d.discount_amount,
                          final_amount |-> final_amount,
                          discount_type |-> d.discount_type, coupon_id |-> d.coupon_id])
             ELSE discount_applications
       /\ Len(discount_applications') <= MaxCalculations
       /\ IF applied
          THEN publish_event("discount", "discount_applied", "discount.applied",
                       [discount_amount |-> d.discount_amount, original_amount |-> amount,
                        final_amount |-> final_amount, discount_type |-> d.discount_type,
                        coupon_code |-> coupon_code, user_id |-> user_id], RequestCorrelation)
          ELSE NoPublish
       /\ quoted' = Some([original_amount |-> amount, discount_amount |-> d.discount_amount,
                          final_amount |-> final_amount, discount_rule |-> d.discount_rule,
                          coupon_code |-> IF d.discount_type = "coupon"
                                          THEN coupon_code ELSE None])
       /\ last' = Result("apply_discount", 0,
                         AfterPublish("200", ~applied \/ PublishOk("discount")))
       /\ UNCHANGED <<now, brokerUp, invoiceVars, consumerVars, paymentVars,
                      tax_calculations>>

\* ----------------------------------------------------------- event consumer
Consumers == {"payment", "invoice"}

EventTypes == {"invoice_created", "invoice_updated", "payment_received", "payment_failed"}

\* The handlers of the services, and one that raises.
HandlerNames == {"handle_invoice_created", "handle_payment_received", "raising_handler"}

\* Whether a handler ends by raising an exception.
HandlerRaises(h) == h = "raising_handler"

Idle == [connected |-> FALSE, consuming |-> FALSE, inflight |-> 0,
         running |-> "none", stale |-> FALSE, stopped |-> FALSE]

\* The index in events of the next message the broker hands to consumer c
\* (FIFO per queue), 0 when its queue holds none.
NextReady(c) ==
    LET ready == {i \in 1..Len(events) :
                     QueueOf(events[i].routing_key) = c /\ delivery[i].state = "ready"}
    IN IF ready = {} THEN 0 ELSE CHOOSE i \in ready : \A j \in ready : i <= j

\* The broker requeues what a closed channel left unacknowledged.
Requeued(d) ==
    IF d.state = "unacked" THEN [d EXCEPT !.state = "ready", !.redelivered = TRUE] ELSE d

\* EventConsumer.connect
ConsumerConnect(c) ==
    /\ consumers' = [consumers EXCEPT ![c].connected = IF @ THEN TRUE ELSE brokerUp]
    /\ adapter' = Call(ConnectAttempts(consumers[c].connected), FALSE,
                       consumers'[c].connected)
    /\ UNCHANGED <<now, pricingVars, brokerUp, invoiceVars, pubConnected, events, delivery,
                   event_handlers, paymentVars, last>>

\* EventConsumer.start_consuming
start_consuming(c) ==
    LET conn == IF consumers[c].connected THEN TRUE ELSE brokerUp IN
    /\ consumers' = [consumers EXCEPT ![c].connected = conn,
                                      ![c].consuming = IF conn /\ brokerUp THEN TRUE ELSE @,
                                      ![c].stopped = FALSE]
    /\ UNCHANGED <<now, pricingVars, brokerUp, invoiceVars, busVars, event_handlers,
                   paymentVars, last>>

\* EventConsumer.disconnect: closing the connection cancels the consumer and
\* the broker requeues the message in flight.
ConsumerDisconnect(c) ==
    /\ consumers[c].connected
    /\ consumers' = [consumers EXCEPT ![c].connected = FALSE, ![c].consuming = FALSE,
                                      ![c].stale = consumers[c].inflight # 0]
    /\ delivery' = [i \in DOMAIN delivery |->
                      IF i = consumers[c].inflight THEN Requeued(delivery[i])
                      ELSE delivery[i]]
    /\ UNCHANGED <<now, pricingVars, brokerUp, invoiceVars, pubConnected, adapter, events, event_handlers,
                   paymentVars, last>>

\* stop_consuming, after which the consumer counts as stopped until the next
\* start_consuming.  EventConsumer.stop_consuming of the payment service is
\* "pass"; BaseEventConsumer.stop_consuming calls disconnect(), which closes
\* the connection if the consumer is connected.
stop_consuming(c) ==
    LET closes == c # "payment" /\ consumers[c].connected IN
    /\ consumers' = [consumers EXCEPT
                        ![c].stopped = TRUE,
                        ![c].connected = IF closes THEN FALSE ELSE @,
                        ![c].consuming = IF closes THEN FALSE ELSE @,
                        ![c].stale = IF closes THEN consumers[c].inflight # 0 ELSE @]
    /\ delivery' = [i \in DOMAIN delivery |->
                      IF closes /\ i = consumers[c].inflight THEN Requeued(delivery[i])
                      ELSE delivery[i]]
    /\ UNCHANGED <<now, pricingVars, brokerUp, invoiceVars, pubConnected, adapter, events,
                   event_handlers, paymentVars, last>>

\* A register_handler that does not replace: a type that already has a
\* handler falls back to the service's own one.
RegisterKeepsFirst(c, type, h) ==
    /\ event_handlers' = [event_handlers EXCEPT
                             ![c][type] = IF @ = "none" THEN h ELSE "handle_invoice_created"]
    /\ UNCHANGED <<now, pricingVars, brokerUp, invoiceVars, busVars, consumers, paymentVars, last>>

\* EventConsumer.register_handler: the later registration replaces the earlier.
register_handler(c, type, h) ==
    /\ event_handlers' = [event_handlers EXCEPT ![c][type] = h]
    /\ UNCHANGED <<now, pricingVars, brokerUp, invoiceVars, busVars, consumers, paymentVars, last>>

\* Message bodies that no publisher of the system produces: text that is not
\* JSON, JSON that is not an object, an object without event_type, and an
\* object whose event_type nobody knows.
ForeignBodies == {"not_json", "not_an_object", "no_event_type", "unknown_event_type"}

\* Whether json.loads(message.body.decode()) or body.get raises.
Undecodable(msg) == msg.source = "foreign" /\ msg.payload \in {"not_json", "not_an_object"}

\* Some other program publishes a message with such a body.
ForeignMessage(key, body) ==
    /\ Len(events) < MaxEvents
    /\ brokerUp
    /\ events' = Append(events,
                        [event_id |-> Len(events) + 1,
                         event_type |-> IF body = "unknown_event_type"
                                        THEN "unknown_event" ELSE "None",
                         routing_key |-> key, source |-> "foreign", timestamp |-> now,
                         correlation_id |-> uuid4(Len(events) + 1),
                         source_service |-> None, payload |-> body])
    /\ delivery' = Append(delivery, Enqueued(key))
    /\ UNCHANGED <<now, pricingVars, brokerUp, invoiceVars, pubConnected, adapter, consumerVars,
                   paymentVars, last>>

\* A lookup that finds a handler for every message.
HandlesEverything(c, msg) == "handle_invoice_created"

\* The handler process_message calls for a message, "none" when it calls
\* none: the body does not parse, event_type is missing or empty, or no
\* handler is registered for it.
HandlerFor(c, msg) ==
    IF Undecodable(msg) THEN "none"
    ELSE IF msg.event_type = "None" THEN "none"
    ELSE IF msg.event_type \in DOMAIN event_handlers[c] THEN event_handlers[c][msg.event_type]
    ELSE "none"

\* EventConsumer.process_message up to the handler call: a message for which
\* no handler is called is logged and acknowledged at once.
Deliver(c) ==
    LET i == NextReady(c)
        h == HandlerFor(c, events[i])
    IN /\ brokerUp
       /\ consumers[c].connected
       /\ consumers[c].consuming
       /\ consumers[c].inflight = 0
       /\ i # 0
       /\ IF h = "none"
          THEN /\ delivery' = [delivery EXCEPT
                                  ![i].state = "acked",
                                  ![i].result = IF Undecodable(events[i])
                                                THEN "undecodable" ELSE "no_handler"]
               /\ UNCHANGED consumers
          ELSE /\ delivery' = [delivery EXCEPT ![i].state = "unacked"]
               /\ consumers' = [consumers EXCEPT ![c].inflight = i, ![c].running = h]
       /\ UNCHANGED <<now, pricingVars, brokerUp, invoiceVars, pubConnected, adapter, events, event_handlers,
                      paymentVars, last>>

\* Whether process_message acknowledges the message once the handler ended
\* with this result: an exception of the handler is caught and logged inside
\* the message.process() block, which then exits normally.
AckAfter(result) == result \in {"completed", "raised"}

\* EventConsumer.process_message from the end of the handler on.
HandlerEnds(c) ==
    LET i == consumers[c].inflight
        h == consumers[c].running
        result == IF HandlerRaises(h) THEN "raised" ELSE "completed"
        id == events[i].payload.invoice_id
    IN /\ i # 0
       /\ invoices' = IF h = "handle_payment_received" /\ Exists(id)
                      THEN [invoices EXCEPT ![id] = handle_payment_received(@, events[i])]
                      ELSE invoices
       /\ delivery' = [delivery EXCEPT
                          ![i].result = result,
                          ![i].state = IF ~consumers[c].stale /\ AckAfter(result)
                                       THEN "acked" ELSE @]
       /\ consumers' = [consumers EXCEPT ![c].inflight = 0, ![c].running = "none",
                                         ![c].stale = FALSE]
       /\ UNCHANGED <<now, pricingVars, brokerUp, history, invoice_items, requests, generated,
                      pubConnected, adapter, events, event_handlers,
                      paymentVars, last>>

\* ------------------------------------------------------------ environment
Tick ==
    /\ now < MaxClock
    /\ now' = now + 1
    /\ UNCHANGED <<brokerUp, pricingVars, invoiceVars, busVars, consumerVars, paymentVars, last>>

\* The broker becomes unreachable: every connection drops and the broker
\* requeues what was unacknowledged.
BrokerDown ==
    /\ brokerUp
    /\ brokerUp' = FALSE
    /\ delivery' = [i \in DOMAIN delivery |-> Requeued(delivery[i])]
    /\ consumers' = [c \in Consumers |->
                       [consumers[c] EXCEPT !.stale = @ \/ consumers[c].inflight # 0]]
    /\ UNCHANGED <<now, pricingVars, invoiceVars, pubConnected, adapter, events, event_handlers, paymentVars, last>>

\* The broker is reachable again; robust connections resume by themselves.
BrokerBack ==
    /\ ~brokerUp
    /\ brokerUp' = TRUE
    /\ UNCHANGED <<now, pricingVars, invoiceVars, busVars, consumerVars, paymentVars, last>>

\* The payment service announces a received payment for an invoice (the
\* publication of create_payment, seen from the invoice service).
PaymentReceivedArrives(invoice_id, amount) ==
    /\ Len(events) < MaxEvents
    /\ brokerUp
    /\ events' = Append(events, Envelope("payment", "payment_received", "payment.received",
                          [invoice_id |-> invoice_id, status |-> COMPLETED,
                           amount |-> amount, payment_id |-> 1], None))
    /\ delivery' = Append(delivery, Enqueued("payment.received"))
    /\ UNCHANGED <<now, pricingVars, brokerUp, invoiceVars, pubConnected, adapter, consumerVars, paymentVars, last>>

\* ------------------------------------------------------------------ system
\* The database sessions of requests handled at the same time: get_db gives
\* each request a session of its own.
Sessions == {"s1", "s2"}

\* A session with no request in it.
NoRequest == [op |-> "none", pc |-> "idle", id |-> 0, user_id |-> "none",
              loaded |-> <<>>, code |-> "none"]

\* The handlers the payment service registers when its consumer module loads.
PaymentHandlers(type) ==
    IF type = "invoice_created" THEN "handle_invoice_created" ELSE "none"

\* The handlers the invoice service registers with its consumer.
InvoiceHandlers(type) ==
    IF type = "payment_received" THEN "handle_payment_received" ELSE "none"

Init ==
    /\ now = 0
    /\ invoices = <<>>
    /\ history = <<>>
    /\ invoice_items = <<>>
    /\ requests = [s \in Sessions |-> NoRequest]
    /\ generated = None
    /\ brokerUp = TRUE
    /\ pubConnected = [s \in Services |-> FALSE]
    /\ adapter = NoCall
    /\ events = <<>>
    /\ delivery = <<>>
    /\ consumers = [c \in Consumers |-> Idle]
    /\ event_handlers = [c \in Consumers |->
                     [t \in EventTypes |->
                        IF c = "payment" THEN PaymentHandlers(t) ELSE InvoiceHandlers(t)]]
    /\ payments = <<>>
    /\ attempts = <<>>
    /\ inGateway = {}
    /\ tax_calculations = <<>>
    /\ discount_applications = <<>>
    /\ quoted = None
    /\ last = Result("none", 0, "none")

InvoiceRequest ==
    \/ \E u \in Users, a \in AmountInputs, s \in InvoiceStatus, items \in ItemLists :
          create_invoice(u, a, s, items)
    \/ \E i \in InvoiceIds, u \in Users, d \in UpdateInputs : update_invoice(i, u, d)
    \/ \E i \in InvoiceIds, u \in Users : issue_invoice(i, u)
    \/ \E i \in InvoiceIds, u \in Users : cancel_invoice(i, u)

PaymentRequest ==
    \/ \E u \in Users, i \in InvoiceIds, a \in PaymentAmounts, m \in MethodInputs :
          create_payment(u, i, a, m)
    \/ \E p \in PaymentIds, o \in GatewayOutcomes : GatewayReturn(p, o)
    \/ \E t \in WebhookTypes, r \in WebhookIds : handle_webhook_event(t, r)

Consume(c) ==
    \/ start_consuming(c)
    \/ Deliver(c)
    \/ HandlerEnds(c)

Environment ==
    \/ Tick
    \/ BrokerDown
    \/ BrokerBack

\* The update_data the PUT route passes on: descriptive fields only (sent a
\* second time, the same value changes nothing).
RouteUpdates == {[notes |-> "a"]}

\* The invoice service's requests on invoices of user u1, made by their owner
\* and by another user, as time passes.
NextInvoice ==
    \/ \E s \in InvoiceStatus : create_invoice("u1", <<2, 1, 1>>, s, <<>>)
    \/ \E i \in InvoiceIds, u \in Users, d \in RouteUpdates : update_invoice(i, u, d)
    \/ \E i \in InvoiceIds, u \in Users : issue_invoice(i, u)
    \/ \E i \in InvoiceIds, u \in Users : cancel_invoice(i, u)
    \/ Tick

SpecInvoice == Init /\ [][NextInvoice]_vars

\* The invoice service's operations called with any update_data dictionary,
\* as InvoiceService.update_invoice accepts it.
\* update_data dictionaries: a descriptive field, an amount column, and a key
\* the Invoice row does not have.
ServiceUpdates == {[notes |-> "a"], [total_amount |-> 5], [no_such_attr |-> 1]}

NextTotals ==
    \/ \E a \in AmountInputs : create_invoice("u1", a, DRAFT, <<>>)
    \/ \E i \in InvoiceIds, u \in Users, d \in ServiceUpdates : update_invoice(i, u, d)
    \/ \E i \in InvoiceIds : issue_invoice(i, "u1")
    \/ \E i \in InvoiceIds : cancel_invoice(i, "u1")

SpecTotals == Init /\ [][NextTotals]_vars

\* The status argument of InvoiceService.create_invoice as the POST /invoices
\* route leaves it: the parameter's default.
RouteStatus == DRAFT

\* create_invoice called as the route calls it and as any other caller of
\* the service may, with a broker that comes and goes.
NextCreate ==
    \/ \E items \in {<<>>, <<DictItem>>, <<SchemaItem>>} :
          create_invoice("u1", <<2, 1, 1>>, RouteStatus, items)
    \/ \E s \in InvoiceStatus, items \in {<<>>, <<DictItem>>, <<SchemaItem>>} :
          create_invoice("u1", <<2, 1, 1>>, s, items)
    \/ BrokerDown
    \/ BrokerBack
    \/ Tick

SpecCreate == Init /\ [][NextCreate]_vars

\* Every request on one invoice and on its payments, made by the owner and
\* by another user, before and after the invoice exists.
NextAccess ==
    \/ create_invoice("u1", <<2, 0, 0>>, DRAFT, <<>>)
    \/ \E i \in InvoiceIds, u \in Users, op \in InvoiceReads : ReadInvoice(op, i, u)
    \/ \E i \in InvoiceIds, u \in Users, d \in RouteUpdates : update_invoice(i, u, d)
    \/ \E i \in InvoiceIds, u \in Users : issue_invoice(i, u)
    \/ \E i \in InvoiceIds, u \in Users : cancel_invoice(i, u)
    \/ create_payment("u1", 1, 2, "credit_card")
    \/ \E p \in PaymentIds, u \in Users : ReadPayment(p, u)

SpecAccess == Init /\ [][NextAccess]_vars

\* The invoice service's publisher and the payment service's consumer,
\* with payloads of every kind of value and a broker that comes and goes.
NextEnvelope ==
    \/ \E payload \in WirePayloads :
          PublishPayload("invoice", "invoice_created", "invoice.created", payload)
    \/ \E payload \in WirePayloads :
          PublishPayload("invoice", "invoice_updated", "invoice.updated", payload)
    \/ \E h \in HandlerNames : register_handler("payment", "invoice_updated", h)
    \/ Consume("payment")
    \/ BrokerDown
    \/ BrokerBack

SpecEnvelope == Init /\ [][NextEnvelope]_vars

\* Invoices created with items, then issued or cancelled by either user.
NextItems ==
    \/ \E u \in Users, items \in ItemLists : create_invoice(u, <<2, 0, 0>>, DRAFT, items)
    \/ \E i \in InvoiceIds, u \in Users : issue_invoice(i, u)
    \/ \E i \in InvoiceIds, u \in Users : cancel_invoice(i, u)

SpecItems == Init /\ [][NextItems]_vars

\* The amounts a discount is asked for: nothing, below and at the threshold
\* of the amount-based discount.
TierAmounts == {0, 100, 200}

\* The discount service alone: every coupon code on every amount, against
\* every content of the discount tables.
NextTiers ==
    \/ \E db \in DiscountTables, amount \in TierAmounts, code \in CouponCodes :
          apply_discount(db, amount, code, "u1")
    \/ BrokerDown
    \/ BrokerBack

SpecTiers == Init /\ [][NextTiers]_vars

\* The tax service alone: every product type on every amount, against every
\* content of the tax_rules table.
NextTax ==
    \/ \E rules \in TaxRuleTables, amount \in PricedAmounts, product_type \in ProductTypes :
          calculate_tax(rules, amount, product_type, "u1")
    \/ BrokerDown
    \/ BrokerBack

SpecTax == Init /\ [][NextTax]_vars

\* One draft invoice and two requests on it, issue or cancel, handled at the
\* same time.
NextRace ==
    \/ invoices = <<>> /\ create_invoice("u1", <<2, 0, 0>>, DRAFT, <<>>)
    \/ \E s \in Sessions, op \in RequestOps : RequestReads(s, op, 1, "u1")
    \/ \E s \in Sessions : RequestCommits(s)
    \/ \E s \in Sessions : RequestPublishes(s)

SpecRace == Init /\ [][NextRace]_vars

\* One invoice of user u1 and every update of it: the dictionaries the PUT
\* route passes on and those only another caller of the service can pass,
\* from its owner and from another user.
NextUpdate ==
    \/ invoices = <<>> /\ create_invoice("u1", <<2, 1, 1>>, DRAFT, <<>>)
    \/ \E u \in Users, d \in UpdateInputs \cup RouteUpdates : update_invoice(1, u, d)
    \/ issue_invoice(1, "u1")
    \/ cancel_invoice(1, "u1")
    \/ BrokerDown
    \/ BrokerBack

SpecUpdate == Init /\ [][NextUpdate]_vars

\* The invoice service's publisher on its own: it connects, publishes and
\* disconnects while the broker comes and goes and time passes.
NextRecover ==
    \/ PublisherConnect("invoice")
    \/ PublisherDisconnect("invoice")
    \/ \E type \in {"invoice_created", "invoice_updated"} :
          PublishCall("invoice", type, IF type = "invoice_created" THEN "invoice.created"
                                       ELSE "invoice.updated")
    \/ BrokerDown
    \/ BrokerBack
    \/ Tick

SpecRecover == Init /\ [][NextRecover]_vars

\* Invoice numbers generated at every time and with every uuid drawn.
NextNumber ==
    \E timestamp \in Timestamps, text \in UuidTexts : _generate_invoice_number(timestamp, text)

SpecNumber == Init /\ [][NextNumber]_vars

\* The invoice service with its consumer, which may be stopped and started
\* again, and the payment events that reach it.
NextReconcile ==
    \/ \E s \in {DRAFT, ISSUED, PAID} : create_invoice("u1", <<2, 1, 1>>, s, <<>>)
    \/ \E i \in InvoiceIds, u \in Users, d \in RouteUpdates : update_invoice(i, u, d)
    \/ \E i \in InvoiceIds, u \in Users : issue_invoice(i, u)
    \/ \E i \in InvoiceIds, u \in Users : cancel_invoice(i, u)
    \/ Consume("invoice")
    \/ ConsumerDisconnect("invoice")
    \/ \E i \in InvoiceIds : PaymentReceivedArrives(i, 2)

SpecReconcile == Init /\ [][NextReconcile]_vars

\* The same, with the event loop running the consumer's callbacks whenever a
\* message is ready or a handler is due to return.
SpecReconcileFair == SpecReconcile /\ WF_vars(Consume("invoice"))

\* The payment service: its requests and the gateway's webhooks.
NextPayment ==
    \/ \E m \in MethodInputs : create_payment("u1", 1, 2, m)
    \/ \E p \in PaymentIds, o \in GatewayOutcomes : GatewayReturn(p, o)
    \/ \E t \in WebhookTypes, r \in WebhookIds : handle_webhook_event(t, r)
    \/ Tick

SpecPayment == Init /\ [][NextPayment]_vars

\* create_payment alone, with a broker that comes and goes.
NextGateway ==
    \/ \E m \in MethodInputs : create_payment("u1", 1, 2, m)
    \/ \E p \in PaymentIds, o \in GatewayOutcomes : GatewayReturn(p, o)
    \/ BrokerDown
    \/ BrokerBack
    \/ Tick

SpecGateway == Init /\ [][NextGateway]_vars

\* The tax and discount services, with a broker that comes and goes.
NextPricing ==
    \/ \E rules \in {<<>>, <<VatRule, LevyRule, DefaultRule>>} :
          calculate_tax(rules, 100, "digital", "u1")
    \/ \E db \in DiscountTables, code \in {None, Some("SAVE")} :
          apply_discount(db, 200, code, "u1")
    \/ BrokerDown
    \/ BrokerBack

SpecPricing == Init /\ [][NextPricing]_vars

\* Discount tables that hold one coupon and nothing else.
DiscountTablesOfCoupon ==
    [coupons |-> <<SaveCoupon>>, user_types |-> <<>>, amount_based |-> <<>>]

\* Every request that publishes an event, made for one invoice, with a
\* broker that comes and goes.
NextAnnounce ==
    \/ invoices = <<>> /\ create_invoice("u1", <<2, 0, 0>>, DRAFT, <<>>)
    \/ issue_invoice(1, "u1")
    \/ cancel_invoice(1, "u1")
    \/ create_payment("u1", 1, 2, "credit_card")
    \/ GatewayReturn(1, "success")
    \/ handle_webhook_event("payment.failed", TransactionReference(0, 1))
    \/ calculate_tax(<<VatRule>>, 100, "digital", "u1")
    \/ apply_discount(DiscountTablesOfCoupon, 200, Some("SAVE"), "u1")
    \/ BrokerDown
    \/ BrokerBack

SpecAnnounce == Init /\ [][NextAnnounce]_vars

\* A payment and the gateway's webhooks for it, with a broker that comes and
\* goes.
NextOutcome ==
    \/ \E m \in MethodInputs : create_payment("u1", 1, 2, m)
    \/ \E p \in PaymentIds, o \in GatewayOutcomes : GatewayReturn(p, o)
    \/ BrokerDown
    \/ BrokerBack
    \/ \E t \in {"payment.succeeded", "payment.failed"}, r \in WebhookIds :
          handle_webhook_event(t, r)

SpecOutcome == Init /\ [][NextOutcome]_vars

\* The event consumer of the payment service, with any handler registered,
\* fed by the invoice service's publications.
NextBus ==
    \/ Consume("payment")
    \/ ConsumerConnect("payment")
    \/ ConsumerDisconnect("payment")
    \/ \E t \in {"invoice_created", "invoice_updated"}, h \in HandlerNames :
          register_handler("payment", t, h)
    \/ create_invoice("u1", <<2, 0, 0>>, DRAFT, <<>>)
    \/ issue_invoice(1, "u1")
    \/ cancel_invoice(1, "u1")
    \/ BrokerDown
    \/ BrokerBack

SpecBus == Init /\ [][NextBus]_vars

\* The adapters on their own: two publishers and a consumer that connect,
\* publish and disconnect while the broker comes and goes.
Publishers == {"invoice", "discount"}

NextAdapter ==
    \/ \E svc \in Publishers : PublisherConnect(svc)
    \/ \E svc \in Publishers : PublisherDisconnect(svc)
    \/ PublishCall("invoice", "invoice_created", "invoice.created")
    \/ PublishCall("discount", "discount_applied", "discount.applied")
    \/ ConsumerConnect("payment")
    \/ ConsumerDisconnect("payment")
    \/ BrokerDown
    \/ BrokerBack

SpecAdapter == Init /\ [][NextAdapter]_vars

\* The payment service's consumer fed with the invoice service's events and
\* with messages it cannot handle.
NextIntake ==
    \/ \E body \in ForeignBodies : ForeignMessage("invoice.created", body)
    \/ PublishCall("invoice", "invoice_created", "invoice.created")
    \/ PublishCall("invoice", "invoice_updated", "invoice.updated")
    \/ Consume("payment")
    \/ ConsumerDisconnect("payment")
    \/ BrokerDown
    \/ BrokerBack

SpecIntake == Init /\ [][NextIntake]_vars

\* Consumers that are started and stopped while events arrive.
NextStop ==
    \/ \E c \in Consumers : Consume(c)
    \/ \E c \in Consumers : stop_consuming(c)
    \/ PublishCall("invoice", "invoice_created", "invoice.created")
    \/ PaymentReceivedArrives(1, 2)

SpecStop == Init /\ [][NextStop]_vars

\* The payment service's consumer while handlers are registered again and
\* again and invoice events arrive.
NextRegistry ==
    \/ \E type \in {"invoice_created", "invoice_updated"}, h \in HandlerNames :
          register_handler("payment", type, h)
    \/ PublishCall("invoice", "invoice_created", "invoice.created")
    \/ PublishCall("invoice", "invoice_updated", "invoice.updated")
    \/ Consume("payment")

SpecRegistry == Init /\ [][NextRegistry]_vars

\* An invoice is issued while the payment service consumes; the broker may be
\* unreachable before the invoice is issued, and once back it stays.
NextIssue ==
    \/ \E u \in Users : create_invoice(u, <<2, 0, 0>>, DRAFT, <<>>)
    \/ \E i \in InvoiceIds, u \in Users : issue_invoice(i, u)
    \/ Consume("payment")
    \/ (\A i \in 1..Len(invoices) : invoices[i].status = DRAFT) /\ BrokerDown
    \/ BrokerBack
    \/ Tick

\* The event loop runs the consumer's callbacks and the broker comes back.
SpecIssueFair ==
    Init /\ [][NextIssue]_vars /\ WF_vars(Consume("payment")) /\ WF_vars(BrokerBack)

Next ==
    \/ InvoiceRequest
    \/ PaymentRequest
    \/ \E c \in Consumers : Consume(c)
    \/ \E c \in Consumers : ConsumerConnect(c)
    \/ \E c \in Consumers : ConsumerDisconnect(c)
    \/ \E c \in Consumers, t \in EventTypes, h \in HandlerNames : register_handler(c, t, h)
    \/ Environment

Spec == Init /\ [][Next]_vars

\* ============================================================ invoice claims
\* The event messages about invoice i that the invoice consumer has handled
\* to completion.
HandledPayments(i) ==
    {m \in 1..Len(events) : /\ events[m].event_type = "payment_received"
                            /\ events[m].payload.invoice_id = i
                            /\ delivery[m].state = "acked"
                            /\ delivery[m].result = "completed"}

\* C1: once an invoice's status is PAID, no step of the invoice service
\* (update_invoice, issue_invoice, cancel_invoice, the handling of a first or
\* a repeated payment_received event) changes it to any other value.
PaidNeverChanges ==
    [][\A i \in 1..Len(invoices) :
          invoices[i].status = PAID => invoices'[i].status = PAID]_vars

\* A paid invoice for which a payment event was handled on its second
\* delivery and on which an update was then attempted.
PaidSurvivedRequests ==
    \E i \in 1..Len(invoices) :
        /\ invoices[i].status = PAID
        /\ \E m \in HandledPayments(i) : delivery[m].redelivered
        /\ last = Result("update", i, "400")

IssueOfNonDraftFails ==
    [][\A i \in InvoiceIds, u \in Users :
          (/\ get_invoice(i, u) = "ok"
           /\ invoices[i].status # DRAFT
           /\ issue_invoice(i, u))
          => /\ last' = Result("issue", i, "400")
             /\ UNCHANGED <<invoices, history, events, delivery>>]_vars

\* An invoice issued once by issue_invoice, on which a second issue failed.
SecondIssueFailed ==
    \E i \in 1..Len(invoices) :
        /\ invoices[i].status = ISSUED
        /\ last = Result("issue", i, "400")
        /\ \E h \in 1..Len(history) : /\ history[h].invoice_id = i
                                      /\ history[h].action = "status_change"
                                      /\ history[h].new = ISSUED
        /\ Cardinality({m \in 1..Len(events) :
                           events[m].event_type = "invoice_created"}) = 1

\* C4: cancel_invoice on a PAID invoice always fails with a client error
\* (400 for the owner, 403 for anyone else), the status stays PAID, no history
\* entry is appended and no event is published.
CancelOfPaidFails ==
    [][\A i \in InvoiceIds, u \in Users :
          (/\ Exists(i)
           /\ invoices[i].status = PAID
           /\ cancel_invoice(i, u))
          => /\ last' = Result("cancel", i,
                               IF invoices[i].user_id = u THEN "400" ELSE "403")
             /\ invoices'[i].status = PAID
             /\ UNCHANGED <<invoices, history, events, delivery>>]_vars

\* A paid invoice whose owner's cancel was refused.
PaidCancelRefused ==
    \E i \in 1..Len(invoices) :
        /\ invoices[i].status = PAID
        /\ last = Result("cancel", i, "400")

\* C5: update_invoice by the owner is accepted (200) exactly when the status
\* is DRAFT; for every other status it ends with HTTP 400 and no field, no
\* timestamp and no history entry changes.
UpdateOnlyWhileDraft ==
    [][\A i \in InvoiceIds, u \in Users, d \in RouteUpdates :
          (get_invoice(i, u) = "ok" /\ update_invoice(i, u, d))
          => IF invoices[i].status = DRAFT
             THEN last' = Result("update", i, "200")
             ELSE /\ last' = Result("update", i, "400")
                  /\ UNCHANGED <<invoices, history>>]_vars

\* An issued invoice whose update was refused at a later time than its last
\* change: updated_at still holds the earlier time.
IssuedUpdateRefused ==
    \E i \in 1..Len(invoices) :
        /\ invoices[i].status = ISSUED
        /\ last = Result("update", i, "400")
        /\ invoices[i].updated_at < now

\* C6: when handle_payment_received has run on a payment_received event
\* whose amount equals the total_amount of an ISSUED invoice, the invoice is
\* PAID and its paid_date is set.
FullPaymentMarksPaid ==
    [][\A m \in 1..Len(events) :
          LET i == events[m].payload.invoice_id IN
          (/\ events[m].event_type = "payment_received"
           /\ Exists(i)
           /\ invoices[i].status = ISSUED
           /\ events[m].payload.amount = invoices[i].total_amount
           /\ consumers["invoice"].inflight = m
           /\ consumers["invoice"].running = "handle_payment_received"
           /\ HandlerEnds("invoice"))
          => /\ invoices'[i].status = PAID
             /\ invoices'[i].paid_date # None]_vars

\* A payment_received event for invoice i is with the invoice consumer, or
\* has been handled by it, while the invoice is ISSUED.
PaymentDelivered(i) ==
    /\ Exists(i)
    /\ invoices[i].status = ISSUED
    /\ \E m \in 1..Len(events) : /\ events[m].event_type = "payment_received"
                                 /\ events[m].payload.invoice_id = i
                                 /\ delivery[m].state \in {"unacked", "acked"}

\* C7: once a payment_received event for an ISSUED invoice has been delivered
\* to the invoice service's consumer, the invoice eventually becomes
\* PARTIALLY_PAID or PAID (or its owner cancels it first).
PaymentEventuallyApplied ==
    \A i \in InvoiceIds :
        PaymentDelivered(i)
            ~> (Exists(i) /\ invoices[i].status \in {PARTIALLY_PAID, PAID, CANCELLED})

\* ================================================================ bus claims
\* C8: a message whose handler raised is not acknowledged (it stays with the
\* broker to be delivered again).
RaisedIsNotAcked ==
    \A m \in 1..Len(delivery) : delivery[m].result = "raised" => delivery[m].state # "acked"

\* ============================================================ payment claims
\* C9: a webhook whose outcome equals the status the payment already has
\* (COMPLETED, FAILED or REFUNDED) returns success, changes no field of any
\* payment and publishes no event.
RepeatedWebhookIsNoOp ==
    [][\A type \in WebhookTypes, ref \in WebhookIds :
          LET id == get_payment_by_transaction_reference(ref) IN
          (/\ id # 0
           /\ WebhookApplies(type, payments[id])
           /\ payments[id].status = WebhookStatus(type)
           /\ handle_webhook_event(type, ref))
          => /\ last' = Result("webhook", id, "success")
             /\ UNCHANGED <<payments, events, delivery>>]_vars

\* C10: a payment that has reached COMPLETED, FAILED or REFUNDED keeps that
\* status, except that a COMPLETED payment may become REFUNDED.
TerminalStatusNeverReplaced ==
    [][\A p \in 1..Len(payments) :
          payments[p].status \in {COMPLETED, FAILED, REFUNDED}
          => \/ payments'[p].status = payments[p].status
             \/ payments[p].status = COMPLETED /\ payments'[p].status = REFUNDED]_vars

\* The PaymentAttempt rows of payment p.
AttemptsOf(p) == {a \in 1..Len(attempts) : attempts[a].payment_id = p}

\* C11: a create_payment whose gateway call ends with a failure response (a
\* decline, an error response, a timeout) leaves the payment FAILED with a
\* status_message and with exactly one PaymentAttempt, of success false.
GatewayFailureIsRecorded ==
    [][\A p \in PaymentIds, o \in {"declined", "rejected"} :
          GatewayReturn(p, o)
          => /\ payments'[p].status = FAILED
             /\ payments'[p].status_message # None
             /\ \E a \in 1..Len(attempts') :
                   /\ attempts'[a] = [payment_id |-> p, success |-> FALSE]
                   /\ \A b \in 1..Len(attempts') : attempts'[b].payment_id = p => b = a]_vars

\* C12: once the gateway call of a create_payment has ended, whatever its
\* outcome, the payment has exactly one PaymentAttempt.
AttemptNeverSkipped ==
    \A p \in 1..Len(payments) : p \notin inGateway => Cardinality(AttemptsOf(p)) = 1

\* The events a step adds to the exchange.
Published == SubSeq(events', Len(events) + 1, Len(events'))

\* The one event of this type about payment p.
OutcomeEvent(type, p) ==
    Len(Published) = 1 /\ Published[1].event_type = type
                       /\ Published[1].payload.payment_id = p

PublishResultIsIgnored ==
    [][/\ \A i \in InvoiceIds, u \in Users :
            /\ (get_invoice(i, u) = "ok" /\ IssueAllowed(invoices[i]) /\ issue_invoice(i, u))
               => /\ invoices'[i].status = ISSUED
                  /\ Len(history') = Len(history) + 1
                  /\ last' = Result("issue", i, "200")
            /\ (get_invoice(i, u) = "ok" /\ CancelAllowed(invoices[i]) /\ cancel_invoice(i, u))
               => /\ invoices'[i].status = CANCELLED
                  /\ last' = Result("cancel", i, "200")
       /\ \A p \in PaymentIds :
            /\ GatewayReturn(p, "success")
               => /\ payments'[p].status = COMPLETED
                  /\ Len(attempts') = Len(attempts) + 1
                  /\ last' = Result("create_payment", p, "201")
       /\ LET ref == TransactionReference(0, 1)
              id == get_payment_by_transaction_reference(ref) IN
          (id # 0 /\ handle_webhook_event("payment.failed", ref))
          => /\ payments'[id].status = FAILED
             /\ last' = Result("webhook", id, "success")
       /\ calculate_tax(<<VatRule>>, 100, "digital", "u1")
          => /\ last' = Result("calculate_tax", 0, "200")
             /\ quoted' = Some([original_amount |-> 100, tax_amount |-> 10,
                                rules_applied |-> <<"vat">>, total_amount |-> 110])
             /\ Len(tax_calculations') = Len(tax_calculations) + 1
       /\ apply_discount(DiscountTablesOfCoupon, 200, Some("SAVE"), "u1")
          => /\ last' = Result("apply_discount", 0, "200")
             /\ quoted' = Some([original_amount |-> 200, discount_amount |-> 60,
                                final_amount |-> 140, discount_rule |-> Some("coupon"),
                                coupon_code |-> Some("SAVE")])
             /\ Len(discount_applications') = Len(discount_applications) + 1]_vars

\* C14 (witness): with no event ever taken by the broker, an invoice was
\* issued, a payment completed, a tax calculation and a discount application
\* recorded, and the last request, made while the broker was unreachable,
\* returned its result.
AllDoneUnannounced ==
    /\ ~brokerUp
    /\ events = <<>>
    /\ \E i \in 1..Len(invoices) : invoices[i].status = ISSUED
    /\ \E p \in 1..Len(payments) : payments[p].status = COMPLETED
    /\ tax_calculations # <<>>
    /\ discount_applications # <<>>
    /\ last = Result("apply_discount", 0, "200")

\* C15: publish_event always returns, and returns a boolean that is true
\* exactly when the message reached the exchange; a publisher that is not
\* connected makes one connection attempt and, still disconnected, returns
\* false without sending; a publisher that is connected makes none, and a
\* send over a lost connection returns false.
PublishReturnsWhetherSent ==
    [][\A svc \in Publishers, type \in {"invoice_created", "discount_applied"},
         key \in {"invoice.created", "discount.applied"} :
          PublishCall(svc, type, key)
          => /\ adapter'.result \in BOOLEAN
             /\ adapter'.result <=> Len(events') = Len(events) + 1
             /\ ~adapter'.result => events' = events
             /\ pubConnected[svc] => adapter'.connects = 0 /\ adapter'.sent
             /\ ~pubConnected[svc]
                => /\ adapter'.connects = 1
                   /\ ~pubConnected'[svc] => ~adapter'.sent /\ ~adapter'.result
             /\ ~brokerUp => ~adapter'.result]_vars

\* C15 (witness): a connected publisher sent over a lost connection and
\* returned false.
SendOverLostConnection ==
    /\ adapter = Call(0, TRUE, FALSE)
    /\ ~brokerUp
    /\ \E svc \in Publishers : pubConnected[svc]

\* C16: connect() on a connected adapter makes no connection attempt and
\* changes nothing; on a disconnected one it makes one attempt and, when that
\* fails, returns with the adapter still disconnected.
ConnectIsIdempotent ==
    [][/\ \A svc \in Publishers :
            PublisherConnect(svc)
            => /\ pubConnected[svc]
                  => /\ adapter'.connects = 0
                     /\ UNCHANGED <<pubConnected, events, delivery, consumers>>
               /\ ~pubConnected[svc]
                  => /\ adapter'.connects = 1
                     /\ pubConnected'[svc] = brokerUp
                     /\ adapter'.result = brokerUp
       /\ \A c \in Consumers :
            ConsumerConnect(c)
            => /\ consumers[c].connected
                  => /\ adapter'.connects = 0
                     /\ UNCHANGED <<pubConnected, events, delivery, consumers>>
               /\ ~consumers[c].connected
                  => /\ adapter'.connects = 1
                     /\ consumers'[c].connected = brokerUp
                     /\ adapter'.result = brokerUp]_vars

\* C16 (witness): a connect() found the broker unreachable and returned
\* with the adapters disconnected.
ConnectFailedQuietly ==
    /\ adapter = Call(1, FALSE, FALSE)
    /\ ~brokerUp
    /\ \A svc \in Publishers : ~pubConnected[svc]
    /\ ~consumers["payment"].connected

\* A message process_message has no handler to call for: its body is not
\* JSON (or not a JSON object), its event_type is missing, or no handler is
\* registered for its event_type.
Unhandled(c, msg) ==
    \/ msg.source = "foreign"
    \/ event_handlers[c][msg.event_type] = "none"

\* C17: process_message acknowledges every message it has no handler for
\* (invalid JSON, no event_type, no registered handler) without running a
\* handler, and such a message is never delivered a second time.
UnhandledIsAckedAndDropped ==
    [][/\ \A c \in Consumers :
            LET i == NextReady(c) IN
            (i # 0 /\ Unhandled(c, events[i]) /\ Deliver(c))
            => /\ delivery'[i].state = "acked"
               /\ consumers'[c].inflight = 0
               /\ consumers'[c].running = "none"
       /\ \A i \in 1..Len(events) :
            Unhandled(QueueOf(events[i].routing_key), events[i])
            => /\ ~delivery[i].redelivered
               /\ delivery[i].state \in {"ready", "acked"}
               /\ delivery[i].state = "acked" => delivery'[i] = delivery[i]]_vars

\* C17 (witness): a message that is not JSON and a message of an event type
\* without handler were both acknowledged without a handler.
PoisonMessagesDropped ==
    /\ \E i \in 1..Len(events) :
          delivery[i].state = "acked" /\ delivery[i].result = "undecodable"
    /\ \E i \in 1..Len(events) :
          /\ events[i].source = "invoice"
          /\ delivery[i].state = "acked" /\ delivery[i].result = "no_handler"

\* C18: between the end of a stop_consuming() and the next
\* start_consuming(), no message is handed to a handler of that consumer.
StoppedConsumerGetsNothing ==
    [][\A c \in Consumers :
          consumers[c].stopped => ~(Deliver(c) /\ consumers'[c].running # "none")]_vars

\* C19: register_handler leaves the event type mapped to the handler just
\* registered and every other type as it was; nothing else changes the
\* mapping; and a delivered message runs the one handler its type is mapped
\* to at that moment, once, until that handler has ended.
LastRegisteredHandlerRuns ==
    [][/\ \A c \in Consumers, type \in EventTypes, h \in HandlerNames :
            register_handler(c, type, h)
            => /\ event_handlers'[c][type] = h
               /\ \A d \in Consumers, other \in EventTypes :
                     (d # c \/ other # type)
                     => event_handlers'[d][other] = event_handlers[d][other]
       /\ event_handlers' # event_handlers
          => \E c \in Consumers, type \in EventTypes, h \in HandlerNames :
                register_handler(c, type, h)
       /\ \A c \in Consumers :
            LET i == NextReady(c) IN
            Deliver(c)
            => /\ consumers'[c].running = event_handlers[c][events[i].event_type]
               /\ consumers'[c].running # "none" => consumers'[c].inflight = i
               /\ delivery[i].result = "none"
       /\ \A c \in Consumers :
            consumers[c].inflight # 0
            => \/ consumers'[c].running = consumers[c].running
               \/ HandlerEnds(c)]_vars

\* C19 (witness): the handler of invoice_created was replaced by another,
\* and a delivered invoice_created message is run by the replacement.
ReplacementHandlerRuns ==
    /\ event_handlers["payment"]["invoice_created"] = "raising_handler"
    /\ consumers["payment"].running = "raising_handler"
    /\ consumers["payment"].inflight # 0
    /\ events[consumers["payment"].inflight].event_type = "invoice_created"

\* C20: once an invoice is ISSUED, its invoice_created event is eventually
\* handed to the payment service's handler, also when the broker was
\* unreachable at the publish call and came back afterwards.
IssuedIsEventuallyDelivered ==
    \A i \in InvoiceIds :
        (Exists(i) /\ invoices[i].status = ISSUED)
        ~> \E e \in 1..Len(events) :
              /\ events[e].event_type = "invoice_created"
              /\ events[e].payload.invoice_id = i
              /\ \/ consumers["payment"].inflight = e
                 \/ delivery[e].result = "completed"

\* ============================================================= claims C21-C30
\* total_amount == subtotal + tax_amount - discount_amount
TotalIsConsistent(inv) ==
    inv.total_amount = inv.subtotal + inv.tax_amount - inv.discount_amount

ItemsOf(table, id) == SelectSeq(table, LAMBDA row : row.invoice_id = id)

\* C22: create_invoice attaches its items atomically: after the call,
\* failed partway or not, either the invoice exists together with all of
\* the items it was created with, or neither the invoice nor any of its
\* items exists.
CreateAttachesAtomically ==
    [][ \A u \in Users, items \in ItemLists :
          create_invoice(u, <<2, 0, 0>>, DRAFT, items) =>
             LET id == Len(invoices) + 1 IN
             \/ /\ Len(invoices') = id
                /\ Len(ItemsOf(invoice_items', id)) = Len(items)
             \/ /\ invoices' = invoices
                /\ ItemsOf(invoice_items', id) = <<>> ]_vars

HistoryOf(table, id) == SelectSeq(table, LAMBDA row : row.invoice_id = id)

\* C24: every operation that creates an invoice or changes its row appends
\* exactly one history entry for that invoice, which describes it (created;
\* status_change with the old and the new status; updated), and an operation
\* that is rejected or changes nothing appends none, so that the history of
\* an invoice grows by one with each state-changing operation and never
\* otherwise.
HistoryRecordsEveryChange ==
    [][ \A i \in InvoiceIds :
          LET created == ~Exists(i) /\ i \in 1..Len(invoices')
              changed == Exists(i) /\ invoices'[i] # invoices[i]
              before == HistoryOf(history, i)
              after == HistoryOf(history', i)
              entry == after[Len(after)]
          IN IF created \/ changed
             THEN /\ Len(after) = Len(before) + 1
                  /\ SubSeq(after, 1, Len(before)) = before
                  /\ IF created THEN entry.action = "created"
                     ELSE IF last'.op = "update" THEN entry.action = "updated"
                     ELSE /\ entry.action = "status_change"
                          /\ entry.old = invoices[i].status
                          /\ entry.new = invoices'[i].status
                          /\ entry.old # entry.new
             ELSE after = before ]_vars

\* C24 witness: an invoice was created, updated, cancelled and cancelled
\* again, and was refused to another user; its history holds the three
\* entries of the three changes.
ThreeChangesThreeEntries ==
    /\ Len(invoices) = 1
    /\ invoices[1].status = CANCELLED /\ invoices[1].notes = "a"
    /\ Len(events) = 2
    /\ last = Result("update", 1, "403")
    /\ Len(HistoryOf(history, 1)) = 3

\* Everything but the result of the latest request.
stateVars == <<now, invoices, history, invoice_items, requests, generated, brokerUp,
               pubConnected, adapter,
               events, delivery, consumers, event_handlers, payments, attempts,
               inGateway, tax_calculations, discount_applications, quoted>>

\* C25: get_invoice, update_invoice, issue_invoice, cancel_invoice,
\* get_invoice_payments and get_invoice_history fail with 404 when the invoice
\* does not exist and with 403 when it belongs to another user, whatever its
\* status (the ownership check comes before the status check), and so does
\* get_payment for payments; a request that fails so changes no state and
\* publishes no event.
ForeignAndMissingAreRefused ==
    [][ /\ \A i \in InvoiceIds, u \in Users :
            LET refusal == IF ~Exists(i) THEN "404"
                           ELSE IF invoices[i].user_id # u THEN "403" ELSE "ok"
                request == \/ \E op \in InvoiceReads : ReadInvoice(op, i, u)
                           \/ \E d \in RouteUpdates : update_invoice(i, u, d)
                           \/ issue_invoice(i, u)
                           \/ cancel_invoice(i, u)
            IN refusal # "ok" /\ request =>
                  /\ last'.code = refusal /\ last'.id = i
                  /\ UNCHANGED stateVars
        /\ \A p \in PaymentIds, u \in Users :
            LET refusal == IF p \notin 1..Len(payments) THEN "404"
                           ELSE IF payments[p].user_id # u THEN "403" ELSE "ok"
            IN refusal # "ok" /\ ReadPayment(p, u) =>
                  /\ last' = Result("get_payment", p, refusal)
                  /\ UNCHANGED stateVars ]_vars

\* C25 witness: another user's issue of an invoice that is already issued
\* was answered with 403 (its owner would get 400), while a payment of the
\* owner exists.
ForeignIssueOfIssuedForbidden ==
    /\ Len(invoices) = 1 /\ invoices[1].status = ISSUED
    /\ invoices[1].user_id = "u1"
    /\ last = Result("issue", 1, "403")
    /\ Len(payments) = 1 /\ payments[1].user_id = "u1"

\* C26: any two distinct payments have distinct transaction_reference
\* values, also when they are created for the same invoice within the same
\* clock second, so that a create_payment with a valid method never fails on
\* the unique reference: it always inserts its row.
ReferenceNeverCollides ==
    [][ /\ \A p, q \in 1..Len(payments') :
            p # q => payments'[p].transaction_reference # payments'[q].transaction_reference
        /\ create_payment("u1", 1, 2, "credit_card") =>
              /\ Len(payments') = Len(payments) + 1
              /\ last'.code # "500" ]_vars

\* C27: the correlation_id is propagated along the causal chain: every event
\* published while handling a request of the invoice, tax or discount
\* service carries that request's correlation_id, and every event about a
\* payment, the payment_received and payment_failed of the webhook path
\* included, carries the correlation_id under which the payment was created.
CorrelationIsPropagated ==
    \A m \in 1..Len(events) :
        /\ events[m].source \in {"invoice", "tax", "discount"} =>
              Some(events[m].correlation_id) = RequestCorrelation
        /\ events[m].source = "payment" =>
              events[m].correlation_id = CorrelationId(events[m].payload.payment_id)

EnvelopeHasSixFields ==
    \A m \in 1..Len(events) :
        events[m].source \in Services =>
            /\ {"event_id", "event_type", "timestamp", "correlation_id",
                "source_service", "payload"} \subseteq DOMAIN events[m]
            /\ events[m].source_service # None
            /\ \A n \in 1..Len(events) : n # m => events[n].event_id # events[m].event_id

\* The discount a coupon stands for on an amount: its percentage of the
\* amount, and no more than its max_discount_amount when one is set.
CouponDiscount(coupon, amount) ==
    LET percentage == (amount * coupon.discount_percent) \div 100
    IN IF coupon.max_discount_amount # None /\ coupon.max_discount_amount[1] < percentage
       THEN coupon.max_discount_amount[1]
       ELSE percentage

\* The response to a request answers with the coupon: the coupon's discount,
\* the coupon's rule and the coupon's code.
AnswersWithCoupon(response, coupon, amount, code) ==
    /\ response # None
    /\ response[1].discount_amount = CouponDiscount(coupon, amount)
    /\ response[1].final_amount = amount - CouponDiscount(coupon, amount)
    /\ response[1].discount_rule = Some("coupon")
    /\ response[1].coupon_code = code

NamesOfType(rules, product_type) ==
    {rules[i].name : i \in {j \in DOMAIN rules : rules[j].product_type = product_type}}

HasDefault(rules) == \E i \in DOMAIN rules : rules[i].name = "default"

Range(seq) == {seq[i] : i \in DOMAIN seq}

\* What a calculate_tax step does about rules: with no rule to apply the
\* tax is 0, rules_applied is empty and nothing is recorded; the rules of
\* the product type are applied when there are any, and the default rule
\* only when there are none.
TaxRulesChosen(rules, amount, product_type) ==
    LET response == quoted'[1]
        matching == NamesOfType(rules, product_type)
    IN /\ (matching = {} /\ ~HasDefault(rules)) =>
             /\ response.tax_amount = 0
             /\ response.rules_applied = <<>>
             /\ response.total_amount = amount
             /\ tax_calculations' = tax_calculations
             /\ \A n \in 1..Len(Published) :
                   /\ Published[n].event_type = "tax_calculated"
                   /\ Published[n].payload.rules_applied = <<>>
                   /\ Published[n].payload.tax_amount = 0
       /\ matching # {} => Range(response.rules_applied) = matching
       /\ (matching = {} /\ HasDefault(rules)) =>
             /\ response.rules_applied = <<"default">>
             /\ Len(tax_calculations') = Len(tax_calculations) + 1
       /\ "default" \in Range(response.rules_applied) =>
             (matching = {} \/ "default" \in matching)

StatusChanges ==
    LET changes == SelectSeq(history, LAMBDA h : h.invoice_id = 1 /\ h.action = "status_change")
    IN [i \in DOMAIN changes |-> <<changes[i].old, changes[i].new>>]

EventTypesPublished == [i \in DOMAIN events |-> events[i].event_type]

\* Both sessions have answered a request of these kinds on invoice 1, which
\* existed when each was read.
BothAnswered(op1, op2) ==
    \E s1, s2 \in Sessions :
        /\ s1 # s2
        /\ requests[s1].op = op1 /\ requests[s2].op = op2
        /\ \A s \in {s1, s2} : requests[s].pc = "done" /\ requests[s].code \in {"200", "400"}

\* C33: when two issue_invoice requests for the same draft invoice are
\* handled at the same time, exactly one succeeds and the other is rejected,
\* and the invoice has exactly one status_change entry and one
\* invoice_created event.
OneIssueWins ==
    BothAnswered("issue", "issue") =>
        /\ Cardinality({s \in Sessions : requests[s].code = "200"}) = 1
        /\ Cardinality({s \in Sessions : requests[s].code = "400"}) = 1
        /\ StatusChanges = <<<<DRAFT, ISSUED>>>>
        /\ EventTypesPublished = <<"invoice_created">>

\* C34: when issue_invoice and cancel_invoice on the same draft invoice
\* interleave, the final status, history and events are those of one of
\* the two serial orders, and once cancel_invoice has returned success the
\* stored status is CANCELLED and the issue in flight does not overwrite it.
IssueCancelIsSerial ==
    /\ [](BothAnswered("issue", "cancel") =>
            \/ /\ invoices[1].status = CANCELLED
               /\ StatusChanges = <<<<DRAFT, ISSUED>>, <<ISSUED, CANCELLED>>>>
               /\ Range(EventTypesPublished) = {"invoice_created", "invoice_updated"}
               /\ \A s \in Sessions : requests[s].code = "200"
            \/ /\ invoices[1].status = CANCELLED
               /\ StatusChanges = <<<<DRAFT, CANCELLED>>>>
               /\ EventTypesPublished = <<"invoice_updated">>
               /\ \A s \in Sessions : requests[s].code = IF requests[s].op = "issue"
                                                          THEN "400" ELSE "200")
    /\ [][(\E s \in Sessions : /\ requests[s].op = "cancel"
                                /\ requests[s].pc = "done" /\ requests[s].code = "200")
          => invoices'[1].status = CANCELLED]_vars

\* The results of a request that was rejected or failed.
Rejections == {"400", "403", "404", "500", "error: missing transaction_id",
               "error: payment not found"}

ProtectedKeys == {"status", "user_id", "subtotal", "tax_amount", "discount_amount",
                  "total_amount", "paid_date"}

\* The protected columns of invoice 1 that a step changes.
ProtectedChanged == {k \in ProtectedKeys : invoices'[1][k] # invoices[1][k]}

WebhookFindsExternalReference ==
    [][\A type \in {"payment.succeeded", "payment.failed"}, transaction_id \in WebhookIds,
         p \in 1..Len(payments) :
          (/\ handle_webhook_event(type, transaction_id)
           /\ transaction_id # None
           /\ payments[p].external_reference = Some(transaction_id))
          => /\ last' = Result("webhook", p, "success")
             /\ payments'[p].status = WebhookStatus(type)]_vars

\* A publish_event call of the invoice service's publisher.
InvoicePublishes ==
    \/ PublishCall("invoice", "invoice_created", "invoice.created")
    \/ PublishCall("invoice", "invoice_updated", "invoice.updated")

NumberFitsColumn ==
    generated # None => NumberLength(generated[1]) <= InvoiceNumberWidth
====
